---- MODULE Spec2Model ----
(***************************************************************************)
(* Model of generate_presentation.py: the markdown translator              *)
(* (markdown_to_latex), the frame emitter (convert_markdown_to_frame), the *)
(* cell timeline assembler (generate_beamer_with_content) and the driver   *)
(* (main).                                                                 *)
(*                                                                         *)
(* A Python str is a sequence of one-character strings; None is the empty  *)
(* tuple and a present optional value x is <<x>>.                          *)
(***************************************************************************)
EXTENDS Integers, Sequences, FiniteSets, TLC

\* ------------------------------------------------------------------------
\* str helpers (Python built-ins the program uses)
\* ------------------------------------------------------------------------

None == <<>>
Some(x) == <<x>>

\* str.strip() / \s: the whitespace characters of the modelled alphabet
Whitespace == {" ", "\n", "\t"}

NL == "\n"

\* the backquote character, which a TLA+ string literal cannot hold
BACKTICK == "backquote"

Min(S) == CHOOSE x \in S : \A y \in S : x <= y
Max(S) == CHOOSE x \in S : \A y \in S : x >= y

\* s.strip()
Strip(s) ==
  LET keep == {i \in 1..Len(s) : s[i] \notin Whitespace}
  IN IF keep = {} THEN <<>> ELSE SubSeq(s, Min(keep), Max(keep))

\* s.lstrip(chars): drops every leading character that is in the set chars
LStripChars(s, chars) ==
  LET keep == {i \in 1..Len(s) : s[i] \notin chars}
  IN IF keep = {} THEN <<>> ELSE SubSeq(s, Min(keep), Len(s))

\* s.startswith(p)
StartsWith(s, p) == Len(s) >= Len(p) /\ SubSeq(s, 1, Len(p)) = p

\* s[i:].startswith(p), 1-based
StartsAt(s, i, p) ==
  /\ i + Len(p) - 1 <= Len(s)
  /\ \A k \in 1..Len(p) : s[i + k - 1] = p[k]

\* s.count(c)
CountChar(s, c) == Cardinality({i \in 1..Len(s) : s[i] = c})

\* s.split('\n')
RECURSIVE SplitFrom(_, _)
SplitFrom(s, i) ==
  LET nls == {j \in i..Len(s) : s[j] = NL}
  IN IF nls = {} THEN <<SubSeq(s, i, Len(s))>>
     ELSE LET j == Min(nls) IN <<SubSeq(s, i, j - 1)>> \o SplitFrom(s, j + 1)

SplitLines(s) == SplitFrom(s, 1)

\* '\n'.join(ls)
RECURSIVE JoinLines(_)
JoinLines(ls) ==
  IF ls = <<>> THEN <<>>
  ELSE IF Len(ls) = 1 THEN ls[1]
  ELSE ls[1] \o <<NL>> \o JoinLines(Tail(ls))

\* s.replace(old, new): leftmost non-overlapping occurrences, from index i on
RECURSIVE ReplaceFrom(_, _, _, _)
ReplaceFrom(s, i, old, new) ==
  LET starts == {p \in i..Len(s) : s[p] = old[1] /\ StartsAt(s, p, old)}
  IN IF starts = {} THEN SubSeq(s, i, Len(s))
     ELSE LET m == Min(starts)
          IN SubSeq(s, i, m - 1) \o new \o ReplaceFrom(s, m + Len(old), old, new)

Replace(s, old, new) == ReplaceFrom(s, 1, old, new)

\* ------------------------------------------------------------------------
\* literals of markdown_to_latex
\* ------------------------------------------------------------------------

H5_OPEN == <<"<", "<", "<", "H", "5", ">", ">", ">">>
H5_CLOSE == <<"<", "<", "<", "E", "N", "D", "H", "5", ">", ">", ">">>
H4_OPEN == <<"<", "<", "<", "H", "4", ">", ">", ">">>
H4_CLOSE == <<"<", "<", "<", "E", "N", "D", "H", "4", ">", ">", ">">>
BOLD_OPEN == <<"<", "<", "<", "B", "O", "L", "D", ">", ">", ">">>
BOLD_CLOSE == <<"<", "<", "<", "E", "N", "D", "B", "O", "L", "D", ">", ">", ">">>
ITALIC_OPEN == <<"<", "<", "<", "I", "T", "A", "L", "I", "C", ">", ">", ">">>
ITALIC_CLOSE == <<"<", "<", "<", "E", "N", "D", "I", "T", "A", "L", "I", "C", ">", ">", ">">>
CODE_OPEN == <<"<", "<", "<", "C", "O", "D", "E", ">", ">", ">">>
CODE_CLOSE == <<"<", "<", "<", "E", "N", "D", "C", "O", "D", "E", ">", ">", ">">>
LINK_OPEN == <<"<", "<", "<", "L", "I", "N", "K", ">", ">", ">">>
LINK_MID == <<"<", "<", "<", "L", "I", "N", "K", "T", "E", "X", "T", ">", ">", ">">>
LINK_CLOSE == <<"<", "<", "<", "E", "N", "D", "L", "I", "N", "K", ">", ">", ">">>

TEXTIT == <<"\\", "t", "e", "x", "t", "i", "t", "{">>
TEXTBF == <<"\\", "t", "e", "x", "t", "b", "f", "{">>
TEXTTT == <<"\\", "t", "e", "x", "t", "t", "t", "{">>
HREF == <<"\\", "h", "r", "e", "f", "{">>
CLOSE_BRACE == <<"}">>
CLOSE_OPEN == <<"}", "{">>
CLOSE_BREAK == <<"}", "\\", "\\">>
SUBSECTION == <<"\\", "s", "u", "b", "s", "e", "c", "t", "i", "o", "n", "{">>
SECTION == <<"\\", "s", "e", "c", "t", "i", "o", "n", "{">>
BEGIN_ITEMIZE == <<"\\", "b", "e", "g", "i", "n", "{", "i", "t", "e", "m", "i", "z", "e", "}">>
END_ITEMIZE == <<"\\", "e", "n", "d", "{", "i", "t", "e", "m", "i", "z", "e", "}">>
ITEM_PREFIX == <<" ", " ", " ", " ", "\\", "i", "t", "e", "m", " ">>

\* the sentinel pairs, in the order the code expands them
Sentinels ==
  << H5_OPEN, H5_CLOSE, H4_OPEN, H4_CLOSE, BOLD_OPEN, BOLD_CLOSE,
     ITALIC_OPEN, ITALIC_CLOSE, CODE_OPEN, CODE_CLOSE,
     LINK_OPEN, LINK_MID, LINK_CLOSE >>

\* mutant of EscapedChars: the percent sign is left out
EscapedCharsNoPercent == <<"&", "$", "#", "_", "{", "}">>

\* the replacements dict, in insertion order
EscapedChars == <<"&", "%", "$", "#", "_", "{", "}">>

SpecialChars == {EscapedChars[i] : i \in 1..Len(EscapedChars)}

\* ------------------------------------------------------------------------
\* the regular expressions of markdown_to_latex
\* ------------------------------------------------------------------------

\* first index >= i that holds no whitespace (Len(s)+1 when there is none)
SkipSpace(s, i) ==
  LET stop == {j \in i..Len(s) : s[j] \notin Whitespace}
  IN IF stop = {} THEN Len(s) + 1 ELSE Min(stop)

\* last index of the line that position i lies on (i-1 when i is at its end)
LineEnd(s, i) ==
  LET nls == {j \in i..Len(s) : s[j] = NL}
  IN IF nls = {} THEN Len(s) ELSE Min(nls) - 1

\* ^#{n}\s+ matches at p: a line starts at p with n hashes and a whitespace
HeaderAt(s, p, n) ==
  /\ (p = 1) \/ (s[p - 1] = NL)
  /\ p + n <= Len(s)
  /\ \A k \in 0..(n - 1) : s[p + k] = "#"
  /\ s[p + n] \in Whitespace

\* re.sub(r'^#{n}\s+(.*?)$', open \1 close, s, flags=re.MULTILINE), from i on:
\* \s+ is greedy and may run over line ends; (.*?)$ is the rest of that line
RECURSIVE HeaderSubFrom(_, _, _, _, _)
HeaderSubFrom(s, i, n, open, close) ==
  LET starts == {p \in i..Len(s) : HeaderAt(s, p, n)}
  IN IF starts = {} THEN SubSeq(s, i, Len(s))
     ELSE LET m == Min(starts)
              g == SkipSpace(s, m + n)
              e == LineEnd(s, g)
          IN SubSeq(s, i, m - 1) \o open \o SubSeq(s, g, e) \o close
               \o HeaderSubFrom(s, e + 1, n, open, close)

HeaderSub(s, n, open, close) == HeaderSubFrom(s, 1, n, open, close)

\* where delim (.*?) delim can end when it starts at p: '.' matches no newline
SpanEnds(s, p, delim) ==
  {j \in (p + Len(delim))..Len(s) :
     /\ StartsAt(s, j, delim)
     /\ \A k \in (p + Len(delim))..(j - 1) : s[k] # NL}

\* re.sub(delim (.*?) delim, open \1 close, s), from i on
RECURSIVE SpanSubFrom(_, _, _, _, _)
SpanSubFrom(s, i, delim, open, close) ==
  LET d      == Len(delim)
      starts == {p \in i..Len(s) :
                   StartsAt(s, p, delim) /\ SpanEnds(s, p, delim) # {}}
  IN IF starts = {} THEN SubSeq(s, i, Len(s))
     ELSE LET m == Min(starts)
              j == Min(SpanEnds(s, m, delim))
          IN SubSeq(s, i, m - 1) \o open \o SubSeq(s, m + d, j - 1) \o close
               \o SpanSubFrom(s, j + d, delim, open, close)

SpanSub(s, delim, open, close) == SpanSubFrom(s, 1, delim, open, close)

\* where \((.*?)\) can end when its ( is at j + 1
LinkClosers(s, j) ==
  {k \in (j + 2)..Len(s) :
     /\ s[k] = ")"
     /\ \A m \in (j + 2)..(k - 1) : s[m] # NL}

\* where \[(.*?)\] can end (at its ]) when its [ is at p
LinkMids(s, p) ==
  {j \in (p + 1)..(Len(s) - 1) :
     /\ s[j] = "]" /\ s[j + 1] = "("
     /\ \A m \in (p + 1)..(j - 1) : s[m] # NL
     /\ LinkClosers(s, j) # {}}

\* re.sub(r'\[(.*?)\]\((.*?)\)', LINK \2 LINKTEXT \1 ENDLINK, s), from i on
RECURSIVE LinkSubFrom(_, _)
LinkSubFrom(s, i) ==
  LET starts == {p \in i..Len(s) : s[p] = "[" /\ LinkMids(s, p) # {}}
  IN IF starts = {} THEN SubSeq(s, i, Len(s))
     ELSE LET p == Min(starts)
              j == Min(LinkMids(s, p))
              k == Min(LinkClosers(s, j))
          IN SubSeq(s, i, p - 1)
               \o LINK_OPEN \o SubSeq(s, j + 2, k - 1) \o LINK_MID
               \o SubSeq(s, p + 1, j - 1) \o LINK_CLOSE
               \o LinkSubFrom(s, k + 1)

LinkSub(s) == LinkSubFrom(s, 1)

\* ------------------------------------------------------------------------
\* markdown_to_latex, step by step
\* ------------------------------------------------------------------------

\* text = re.sub(...) for each (n, open, close) of passes in turn, from pass k
RECURSIVE HeaderPasses(_, _, _)
HeaderPasses(s, passes, k) ==
  IF k > Len(passes) \/ s = <<>> THEN s
  ELSE HeaderPasses(HeaderSub(s, passes[k][1], passes[k][2], passes[k][3]),
                    passes, k + 1)

\* the two header levels tagged before anything else (H5 then H4)
TagHeaders(s) ==
  HeaderPasses(s, << <<5, H5_OPEN, H5_CLOSE>>, <<4, H4_OPEN, H4_CLOSE>> >>, 1)

\* text = re.sub(...) for each (delim, open, close) of passes in turn, from pass k
RECURSIVE SpanPasses(_, _, _)
SpanPasses(s, passes, k) ==
  IF k > Len(passes) \/ s = <<>> THEN s
  ELSE SpanPasses(SpanSub(s, passes[k][1], passes[k][2], passes[k][3]),
                  passes, k + 1)

\* bold, italic, inline code and link spans to sentinels, in this order
TagSpans(s) ==
  LinkSub(SpanPasses(s, << << <<"*", "*">>, BOLD_OPEN, BOLD_CLOSE >>,
                          << <<"*">>, ITALIC_OPEN, ITALIC_CLOSE >>,
                          << <<BACKTICK>>, CODE_OPEN, CODE_CLOSE >> >>, 1))

\* for char, replacement in replacements.items(): text.replace(char, replacement)
RECURSIVE EscapeFrom(_, _, _)
EscapeFrom(s, chars, k) ==
  IF k > Len(chars) \/ s = <<>> THEN s
  ELSE EscapeFrom(Replace(s, <<chars[k]>>, <<"\\", chars[k]>>), chars, k + 1)

\* mutant of EscapeSpecials: the braces are left as they are
EscapeSpecialsNoBraces(s) == EscapeFrom(s, <<"&", "%", "$", "#", "_">>, 1)

EscapeSpecials(s) == EscapeFrom(s, EscapedChars, 1)

\* what each sentinel becomes, in the order of Sentinels
Expansions ==
  << TEXTIT, CLOSE_BREAK, TEXTBF, CLOSE_BREAK, TEXTBF, CLOSE_BRACE,
     TEXTIT, CLOSE_BRACE, TEXTTT, CLOSE_BRACE, HREF, CLOSE_OPEN, CLOSE_BRACE >>

RECURSIVE ExpandFrom(_, _)
ExpandFrom(s, k) ==
  IF k > Len(Sentinels) \/ s = <<>> THEN s
  ELSE ExpandFrom(Replace(s, Sentinels[k], Expansions[k]), k + 1)

ExpandSentinels(s) == ExpandFrom(s, 1)

\* the second header pass: ####, ###, ##, # in this order
RescanHeaders(s) ==
  HeaderPasses(s, << <<4, TEXTBF, CLOSE_BRACE>>, <<3, SUBSECTION, CLOSE_BRACE>>,
                     <<2, SECTION, CLOSE_BRACE>>, <<1, SECTION, CLOSE_BRACE>> >>, 1)

\* stripped.startswith('- ') or stripped.startswith('* ')
IsListItem(line) ==
  LET stripped == Strip(line)
  IN StartsWith(stripped, <<"-", " ">>) \/ StartsWith(stripped, <<"*", " ">>)

\* f'    \\item {stripped[2:].strip()}'
ItemLine(line) ==
  LET stripped == Strip(line)
  IN ITEM_PREFIX \o Strip(SubSeq(stripped, 3, Len(stripped)))

\* mutant of KeepLine: blank lines are kept
KeepLineAlways(line) == TRUE

\* if stripped: only non-empty lines are added
KeepLine(line) == Strip(line) # <<>>

\* mutant of CloseAtEnd: a list open at the end stays open
CloseAtEndNever(result_lines, in_list) == result_lines

\* after the loop: if in_list, the list is closed
CloseAtEnd(result_lines, in_list) ==
  IF in_list THEN Append(result_lines, END_ITEMIZE) ELSE result_lines

\* the loop over lines, from line k on, with result_lines and in_list so far
RECURSIVE ListLoop(_, _, _, _)
ListLoop(ls, k, result_lines, in_list) ==
  IF k > Len(ls)
  THEN CloseAtEnd(result_lines, in_list)
  ELSE
    LET line == ls[k]
    IN IF IsListItem(line)
       THEN ListLoop(ls, k + 1,
              (IF in_list THEN result_lines
                          ELSE Append(result_lines, BEGIN_ITEMIZE))
                \o <<ItemLine(line)>>,
              TRUE)
       ELSE ListLoop(ls, k + 1,
              (IF in_list THEN Append(result_lines, END_ITEMIZE)
                          ELSE result_lines)
                \o (IF KeepLine(line) THEN <<line>> ELSE <<>>),
              FALSE)

\* result_lines of the list conversion
ListResultLines(s) == ListLoop(SplitLines(s), 1, <<>>, FALSE)

ConvertLists(s) == JoinLines(ListResultLines(s))

\* the text after the strip and the empty check, up to the list conversion
PreListText(text) ==
  RescanHeaders(ExpandSentinels(EscapeSpecials(TagSpans(TagHeaders(text)))))

\* markdown_to_latex(markdown_text): None, or Some(text)
MarkdownToLatex(markdown_text) ==
  LET text == Strip(markdown_text)
  IN IF text = <<>> THEN None
     ELSE Some(ConvertLists(PreListText(text)))

\* ------------------------------------------------------------------------
\* convert_markdown_to_frame
\* ------------------------------------------------------------------------

BEGIN_FRAME == <<"\\", "b", "e", "g", "i", "n", "{", "f", "r", "a", "m", "e", "}">>
END_FRAME == <<"\\", "e", "n", "d", "{", "f", "r", "a", "m", "e", "}">>

\* Python truth of an optional str: None and "" are false
Truthy(opt) == opt # None /\ opt[1] # <<>>

\* mutant of FrameHeader: the title argument is always written
FrameHeaderAlwaysTitled(title) ==
  BEGIN_FRAME \o <<"{">> \o (IF title = None THEN <<>> ELSE title[1])
    \o <<"}", NL>>

\* frame_header: with the title argument only for a true title
FrameHeader(title) ==
  IF Truthy(title)
  THEN BEGIN_FRAME \o <<"{">> \o title[1] \o <<"}", NL>>
  ELSE BEGIN_FRAME \o <<NL>>

\* frame_header + latex_text + "\n" + "\\end{frame}\n\n"
FrameText(title, latex_text) ==
  FrameHeader(title) \o latex_text \o <<NL>> \o END_FRAME \o <<NL, NL>>

\* convert_markdown_to_frame(title, content): "" or one frame
ConvertMarkdownToFrame(title, content) ==
  IF Strip(content) = <<>> THEN <<>>
  ELSE LET latex_text == MarkdownToLatex(content)
       IN IF ~Truthy(latex_text) THEN <<>>
          ELSE FrameText(title, latex_text[1])

\* ------------------------------------------------------------------------
\* state
\* ------------------------------------------------------------------------

VARIABLES
  \* one call of markdown_to_latex or of convert_markdown_to_frame
  tr_pc,        \* position in the call
  tr_entry,     \* the function called
  tr_title,     \* convert_markdown_to_frame's title
  tr_input,     \* markdown_text / content
  tr_text,      \* the local text of markdown_to_latex
  tr_tagged,    \* text as it entered the escaping loop
  tr_result,    \* what markdown_to_latex returned
  tr_frame,     \* what convert_markdown_to_frame returned
  \* generate_beamer_with_content
  images, markdown_cells, code_cells,
  content_latex,           \* the blocks appended to content_latex, in order
  pc,                      \* position in the loop over cell indices
  todo,                    \* sorted(all_cell_indices) still to visit
  cell_idx,
  lines,                   \* lines of the markdown cell still to walk
  in_frame, current_frame_title, current_frame_content,
  \* main
  m_pc,         \* position in main
  env,          \* argv, the files that exist and what the notebook holds
  tree,         \* directories and files created under output/
  ran,          \* the steps of main that have started
  m_error,      \* why main stopped early, "" if it did not
  \* extract_title_info
  ti_pc,            \* position in the call
  ti_cells,         \* the markdown_cells argument
  ti_lines,         \* lines of the first cell still to inspect
  ti_all_content,   \* the contents of all cells, joined by newlines
  ti_title_found,
  ti_title, ti_subtitle, ti_author, ti_institute

trVars == <<tr_pc, tr_entry, tr_title, tr_input, tr_text, tr_tagged,
            tr_result, tr_frame>>
asmVars == <<images, markdown_cells, code_cells, content_latex, pc, todo,
             cell_idx, lines, in_frame, current_frame_title,
             current_frame_content>>
mainVars == <<m_pc, env, tree, ran, m_error>>
titleVars == <<ti_pc, ti_cells, ti_lines, ti_all_content, ti_title_found,
               ti_title, ti_subtitle, ti_author, ti_institute>>
vars == <<trVars, asmVars, mainVars, titleVars>>

\* a component that takes no part in a specification
TrIdle ==
  /\ tr_pc = "idle" /\ tr_entry = "none" /\ tr_title = None
  /\ tr_input = <<>> /\ tr_text = <<>> /\ tr_tagged = <<>>
  /\ tr_result = None /\ tr_frame = None

AsmIdle ==
  /\ images = <<>> /\ markdown_cells = <<>> /\ code_cells = <<>>
  /\ content_latex = <<>> /\ pc = "idle" /\ todo = <<>> /\ cell_idx = 0
  /\ lines = <<>> /\ in_frame = FALSE /\ current_frame_title = None
  /\ current_frame_content = <<>>

MainIdle ==
  /\ m_pc = "idle" /\ env = <<>> /\ tree = {} /\ ran = {} /\ m_error = ""

TitleIdle ==
  /\ ti_pc = "idle" /\ ti_cells = <<>> /\ ti_lines = <<>>
  /\ ti_all_content = <<>> /\ ti_title_found = FALSE
  /\ ti_title = <<>> /\ ti_subtitle = <<>> /\ ti_author = <<>>
  /\ ti_institute = <<>>

\* ------------------------------------------------------------------------
\* bounded inputs of the translator
\* ------------------------------------------------------------------------

\* lines per translator input
MaxTrLines == 3

SeqsUpTo(S, n) == UNION {[1..k -> S] : k \in 0..n}

\* text with no special character and no markup
PlainLines ==
  { <<"a">>, <<"a", " ", "b">>, <<" ", "a">>, <<"b", " ">>, <<>>, <<" ">>,
    <<"a", "-", "b">> }

\* the seven escaped characters in text without markup
EscLines ==
  { <<"&">>, <<"a", "%", "b">>, <<"$", "$">>, <<"#", "a">>, <<"a", "_">>,
    <<"{", "a", "}">>, <<"}", "{">>, <<"a">>, <<>>, <<"-", " ", "_">> }

\* list items among other lines
ListLines ==
  { <<"-", " ", "a">>, <<"*", " ", "b">>, <<" ", " ", "-", " ", "c">>,
    <<"a">>, <<>>, <<" ">>, <<"-">>, <<"-", "b">>, <<"-", " ", "-", " ", "a">> }

\* inline spans and the tagged header levels, with special characters inside
MarkupLines ==
  { <<"*", "*", "a", "*", "*">>, <<"*", "a", "_", "*">>,
    <<BACKTICK, "{", BACKTICK>>, <<"[", "a", "]", "(", "b", "%", ")">>,
    <<"#", "#", "#", "#", " ", "a", "&">>, <<"#", "#", "#", "#", "#", " ", "b">>,
    <<"#", " ", "a">>, <<"#", "#", "#", " ", "b">>,
    <<"*", " ", "a", "*", "b">>, <<"a", "$">> }

\* the inputs of at most n lines
TrInputs(n) ==
  {JoinLines(ls) : ls \in SeqsUpTo(PlainLines, n)}
    \cup {JoinLines(ls) : ls \in SeqsUpTo(EscLines, n)}
    \cup {JoinLines(ls) : ls \in SeqsUpTo(ListLines, n)}
    \cup {JoinLines(ls) : ls \in SeqsUpTo(MarkupLines, n - 1)}

TrTitles == {Some(<<>>), Some(<<"T">>)}

\* ------------------------------------------------------------------------
\* the translator and the frame emitter, one step per statement group
\* ------------------------------------------------------------------------

TrInit ==
  /\ tr_pc = "call"
  /\ tr_input \in TrInputs(MaxTrLines)
  /\ \/ tr_entry = "markdown_to_latex" /\ tr_title = None
     \/ tr_entry = "convert_markdown_to_frame" /\ tr_title \in TrTitles
  /\ tr_text = <<>> /\ tr_tagged = <<>>
  /\ tr_result = None /\ tr_frame = None

\* convert_markdown_to_frame: if not content.strip(): return ""
ConvertBlank ==
  /\ tr_pc = "call" /\ tr_entry = "convert_markdown_to_frame"
  /\ Strip(tr_input) = <<>>
  /\ tr_frame' = Some(<<>>)
  /\ tr_pc' = "done"
  /\ UNCHANGED <<tr_entry, tr_title, tr_input, tr_text, tr_tagged, tr_result>>
  /\ UNCHANGED <<asmVars, mainVars, titleVars>>

\* convert_markdown_to_frame calls markdown_to_latex(content)
ConvertCall ==
  /\ tr_pc = "call" /\ tr_entry = "convert_markdown_to_frame"
  /\ Strip(tr_input) # <<>>
  /\ tr_pc' = "strip"
  /\ UNCHANGED <<tr_entry, tr_title, tr_input, tr_text, tr_tagged, tr_result,
                 tr_frame>>
  /\ UNCHANGED <<asmVars, mainVars, titleVars>>

\* markdown_to_latex called by itself
DirectCall ==
  /\ tr_pc = "call" /\ tr_entry = "markdown_to_latex"
  /\ tr_pc' = "strip"
  /\ UNCHANGED <<tr_entry, tr_title, tr_input, tr_text, tr_tagged, tr_result,
                 tr_frame>>
  /\ UNCHANGED <<asmVars, mainVars, titleVars>>

\* text = markdown_text.strip(); if not text: return None
StripStep ==
  /\ tr_pc = "strip"
  /\ tr_text' = Strip(tr_input)
  /\ tr_pc' = IF Strip(tr_input) = <<>> THEN "return" ELSE "headers"
  /\ tr_result' = None
  /\ UNCHANGED <<tr_entry, tr_title, tr_input, tr_tagged, tr_frame>>
  /\ UNCHANGED <<asmVars, mainVars, titleVars>>

TagHeadersStep ==
  /\ tr_pc = "headers"
  /\ tr_text' = TagHeaders(tr_text)
  /\ tr_pc' = "spans"
  /\ UNCHANGED <<tr_entry, tr_title, tr_input, tr_tagged, tr_result, tr_frame>>
  /\ UNCHANGED <<asmVars, mainVars, titleVars>>

TagSpansStep ==
  /\ tr_pc = "spans"
  /\ tr_text' = TagSpans(tr_text)
  /\ tr_tagged' = TagSpans(tr_text)
  /\ tr_pc' = "escape"
  /\ UNCHANGED <<tr_entry, tr_title, tr_input, tr_result, tr_frame>>
  /\ UNCHANGED <<asmVars, mainVars, titleVars>>

EscapeStep ==
  /\ tr_pc = "escape"
  /\ tr_text' = EscapeSpecials(tr_text)
  /\ tr_pc' = "expand"
  /\ UNCHANGED <<tr_entry, tr_title, tr_input, tr_tagged, tr_result, tr_frame>>
  /\ UNCHANGED <<asmVars, mainVars, titleVars>>

ExpandStep ==
  /\ tr_pc = "expand"
  /\ tr_text' = ExpandSentinels(tr_text)
  /\ tr_pc' = "rescan"
  /\ UNCHANGED <<tr_entry, tr_title, tr_input, tr_tagged, tr_result, tr_frame>>
  /\ UNCHANGED <<asmVars, mainVars, titleVars>>

RescanStep ==
  /\ tr_pc = "rescan"
  /\ tr_text' = RescanHeaders(tr_text)
  /\ tr_pc' = "lists"
  /\ UNCHANGED <<tr_entry, tr_title, tr_input, tr_tagged, tr_result, tr_frame>>
  /\ UNCHANGED <<asmVars, mainVars, titleVars>>

\* the list conversion, and return text
ListStep ==
  /\ tr_pc = "lists"
  /\ tr_text' = ConvertLists(tr_text)
  /\ tr_result' = Some(ConvertLists(tr_text))
  /\ tr_pc' = "return"
  /\ UNCHANGED <<tr_entry, tr_title, tr_input, tr_tagged, tr_frame>>
  /\ UNCHANGED <<asmVars, mainVars, titleVars>>

\* markdown_to_latex returns to whoever called it
ReturnDirect ==
  /\ tr_pc = "return" /\ tr_entry = "markdown_to_latex"
  /\ tr_pc' = "done"
  /\ UNCHANGED <<tr_entry, tr_title, tr_input, tr_text, tr_tagged, tr_result,
                 tr_frame>>
  /\ UNCHANGED <<asmVars, mainVars, titleVars>>

\* convert_markdown_to_frame: if not latex_text: return ""; else the frame
WrapStep ==
  /\ tr_pc = "return" /\ tr_entry = "convert_markdown_to_frame"
  /\ tr_frame' = IF ~Truthy(tr_result) THEN Some(<<>>)
                 ELSE Some(FrameText(tr_title, tr_result[1]))
  /\ tr_pc' = "done"
  /\ UNCHANGED <<tr_entry, tr_title, tr_input, tr_text, tr_tagged, tr_result>>
  /\ UNCHANGED <<asmVars, mainVars, titleVars>>

TrNext ==
  \/ ConvertBlank \/ ConvertCall \/ DirectCall \/ StripStep
  \/ TagHeadersStep \/ TagSpansStep \/ EscapeStep \/ ExpandStep
  \/ RescanStep \/ ListStep \/ ReturnDirect \/ WrapStep

InitMd == TrInit /\ AsmIdle /\ MainIdle /\ TitleIdle

\* the translator and the frame emitter on every bounded input
SpecMd == InitMd /\ [][TrNext]_vars

\* ------------------------------------------------------------------------
\* properties of the translator and the frame emitter (SpecMd)
\* ------------------------------------------------------------------------

\* number of places where p occurs in s
Occurrences(s, p) == Cardinality({i \in 1..Len(s) : StartsAt(s, i, p)})

EndsWith(s, p) ==
  Len(s) >= Len(p) /\ SubSeq(s, Len(s) - Len(p) + 1, Len(s)) = p

\* the call of convert_markdown_to_frame has returned
ConvertDone == tr_pc = "done" /\ tr_entry = "convert_markdown_to_frame"

\* the call of markdown_to_latex has returned (to either caller)
TranslateDone == tr_pc \in {"return", "done"} /\ tr_entry # "none"

\* C7: convert_markdown_to_frame returns "" exactly when the body is blank
\* after trimming; otherwise it returns one frame block: one frame begin at
\* the start, the text markdown_to_latex returned, one frame end at the end;
\* and the begin carries a title argument iff the title is a non-empty string.
C7_FrameEmitter ==
  ConvertDone =>
    LET f      == tr_frame[1]
        titled == tr_title # None /\ tr_title[1] # <<>>
        header == IF titled
                  THEN BEGIN_FRAME \o <<"{">> \o tr_title[1] \o <<"}", NL>>
                  ELSE BEGIN_FRAME \o <<NL>>
        footer == <<NL>> \o END_FRAME \o <<NL, NL>>
    IN /\ tr_frame # None
       /\ (f = <<>>) <=> (Strip(tr_input) = <<>>)
       /\ f # <<>> =>
            /\ Occurrences(f, BEGIN_FRAME) = 1
            /\ Occurrences(f, END_FRAME) = 1
            /\ StartsWith(f, header)
            /\ EndsWith(f, footer)
            /\ (f[Len(BEGIN_FRAME) + 1] = "{") <=> titled
            /\ tr_result # None
            /\ SubSeq(f, Len(header) + 1, Len(f) - Len(footer)) = tr_result[1]

\* C7 witness: a non-blank body with an empty title gave an untitled frame
C7_Witness ==
  /\ ConvertDone /\ tr_title = Some(<<>>)
  /\ tr_frame # None /\ tr_frame[1] # <<>>

\* characters of text that is neither markup nor escaped
PlainChars == {"a", "b", " ", NL, "-"}

\* plain text: plain characters only, and no line that is a list item
IsPlain(s) ==
  /\ \A i \in 1..Len(s) : s[i] \in PlainChars
  /\ \A k \in 1..Len(SplitLines(s)) : ~IsListItem(SplitLines(s)[k])

NonBlankLines(ls) == SelectSeq(ls, LAMBDA l : Strip(l) # <<>>)

\* C8 as stated: plain text comes back unchanged, blank lines and leading or
\* trailing whitespace included.
C8_Unchanged ==
  (tr_pc = "done" /\ tr_entry = "markdown_to_latex" /\ IsPlain(tr_input))
    => tr_result = Some(tr_input)

\* C8 amended: for plain text markdown_to_latex returns None when the input is
\* blank, and otherwise the input trimmed of leading and trailing whitespace
\* with every blank line removed; the other lines are unchanged, in order.
C8_TrimmedNonBlankLines ==
  (tr_pc = "done" /\ tr_entry = "markdown_to_latex" /\ IsPlain(tr_input))
    => IF Strip(tr_input) = <<>>
       THEN tr_result = None
       ELSE /\ tr_result # None
            /\ SplitLines(tr_result[1])
                 = NonBlankLines(SplitLines(Strip(tr_input)))

\* C8 witness: plain text with a blank line between two paragraphs and
\* whitespace at its start was translated
C8_Witness ==
  /\ tr_pc = "done" /\ tr_entry = "markdown_to_latex" /\ IsPlain(tr_input)
  /\ tr_input # <<>> /\ tr_input[1] = " "
  /\ Occurrences(tr_input, <<NL, NL>>) > 0
  /\ tr_result # None /\ Len(SplitLines(tr_result[1])) = 2

\* the seven characters the escaping is about
SevenSpecials == {"&", "%", "$", "#", "_", "{", "}"}

\* s[lo..hi] with one backslash put before each of the seven characters
RECURSIVE BackslashedRange(_, _, _)
BackslashedRange(s, lo, hi) ==
  IF lo > hi THEN <<>>
  ELSE IF lo = hi
       THEN (IF s[lo] \in SevenSpecials THEN <<"\\", s[lo]>> ELSE <<s[lo]>>)
       ELSE LET mid == (lo + hi) \div 2
            IN BackslashedRange(s, lo, mid) \o BackslashedRange(s, mid + 1, hi)

Backslashed(s) == BackslashedRange(s, 1, Len(s))

\* the sentinel markers of s, by their number in Sentinels, in text order
RECURSIVE SentinelsFrom(_, _)
SentinelsFrom(s, i) ==
  LET ps == {p \in i..Len(s) :
               s[p] = "<" /\ \E k \in 1..Len(Sentinels) : StartsAt(s, p, Sentinels[k])}
  IN IF ps = {} THEN <<>>
     ELSE LET m == Min(ps)
              k == CHOOSE k \in 1..Len(Sentinels) : StartsAt(s, m, Sentinels[k])
          IN <<k>> \o SentinelsFrom(s, m + Len(Sentinels[k]))

SentinelsIn(s) == SentinelsFrom(s, 1)

MarkupChars == {"*", BACKTICK, "[", "]", "(", ")"}

\* text without inline markup and without a tagged (#### or #####) header
NoMarkup(s) ==
  /\ \A i \in 1..Len(s) : s[i] \notin MarkupChars
  /\ \A p \in 1..Len(s) : ~HeaderAt(s, p, 4) /\ ~HeaderAt(s, p, 5)

\* C9: after the escaping loop the text is the text before it with exactly one
\* backslash put before every & % $ # _ { } and nothing else changed, so the
\* sentinel markers are the same markers in the same order; and for input
\* without markup the text handed to the list conversion is the trimmed input
\* with exactly one backslash before each of the seven characters.
C9_Escaping ==
  /\ tr_pc = "expand" =>
       /\ tr_text = Backslashed(tr_tagged)
       /\ SentinelsIn(tr_text) = SentinelsIn(tr_tagged)
  /\ (tr_pc = "lists" /\ NoMarkup(Strip(tr_input))) =>
       tr_text = Backslashed(Strip(tr_input))

\* C9 witness: the escaping loop ran on text holding sentinel markers and some
\* of the seven characters
C9_Witness ==
  /\ tr_pc = "expand"
  /\ SentinelsIn(tr_tagged) # <<>>
  /\ \E i \in 1..Len(tr_tagged) : tr_tagged[i] = "%"
  /\ \E i \in 1..Len(tr_tagged) : tr_tagged[i] = "_"

\* lines of the returned text
ResultLines == SplitLines(tr_result[1])

\* lists open after the first k lines of ls
OpenAfter(ls, k) ==
  Cardinality({j \in 1..k : ls[j] = BEGIN_ITEMIZE})
    - Cardinality({j \in 1..k : ls[j] = END_ITEMIZE})

DigitChars == <<"0", "1", "2", "3", "4", "5", "6", "7", "8", "9">>

\* str(n) of a natural number, as in f"{cell_idx}" and f"{num_lines}"
RECURSIVE Str(_)
Str(n) ==
  IF n < 10 THEN <<DigitChars[n + 1]>>
  ELSE Str(n \div 10) \o <<DigitChars[(n % 10) + 1]>>

\* f"{n:03d}"
Pad3(n) ==
  LET d == Str(n)
  IN IF Len(d) >= 3 THEN d ELSE [i \in 1..(3 - Len(d)) |-> "0"] \o d

\* f"cell_{cell_idx:03d}.py"
CodeFilename(idx) ==
  <<"c", "e", "l", "l", "_">> \o Pad3(idx) \o <<".", "p", "y">>

\* sorted(S)
RECURSIVE SortedSeq(_)
SortedSeq(S) ==
  IF S = {} THEN <<>> ELSE <<Min(S)>> \o SortedSeq(S \ {Min(S)})

\* the elements of seq, each at its first place only
RECURSIVE FirstOccurrences(_)
FirstOccurrences(seq) ==
  IF seq = <<>> THEN <<>>
  ELSE <<Head(seq)>>
         \o FirstOccurrences(SelectSeq(Tail(seq), LAMBDA x : x # Head(seq)))

IndicesOf(cells) == [i \in 1..Len(cells) |-> cells[i].cell_index]

IndexSet(cells) == {cells[i].cell_index : i \in 1..Len(cells)}

\* images_by_cell: for each index the images that carry it, in input order
ImagesByCell(imgs) ==
  [c \in IndexSet(imgs) |-> SelectSeq(imgs, LAMBDA im : im.cell_index = c)]

\* code_by_cell: for each index the last code cell that carries it
CodeByCell(code) ==
  [c \in IndexSet(code) |->
     code[Max({i \in 1..Len(code) : code[i].cell_index = c})]]

\* all_cell_indices
AllCellIndices(imgs, md, code) ==
  IndexSet(md) \cup IndexSet(code) \cup DOMAIN ImagesByCell(imgs)

\* mutant of Timeline: the indices in the order the inputs supply them
TimelineAsSupplied(imgs, md, code) ==
  FirstOccurrences(IndicesOf(md) \o IndicesOf(code) \o IndicesOf(imgs))

\* sorted(all_cell_indices), the order of the main loop
Timeline(imgs, md, code) == SortedSeq(AllCellIndices(imgs, md, code))

\* next((mc for mc in markdown_cells if mc['cell_index'] == cell_idx), None)
FirstMarkdownCell(md, idx) ==
  LET at == {i \in 1..Len(md) : md[i].cell_index = idx}
  IN IF at = {} THEN None ELSE Some(md[Min(at)])

\* mutant of LineKind: a "### " line takes the branch of a "## " line
LineKindSectionsOnly(line_stripped) ==
  IF StartsWith(line_stripped, <<"#", "#", " ">>) THEN "h2"
  ELSE IF StartsWith(line_stripped, <<"#", "#", "#", " ">>) THEN "h2"
  ELSE IF StartsWith(line_stripped, <<"#", " ">>) THEN "h1"
  ELSE IF StartsWith(line_stripped, <<"-", "-", "-">>) THEN "separator"
  ELSE "content"

\* which branch of the if/elif chain a stripped markdown line takes
LineKind(line_stripped) ==
  IF StartsWith(line_stripped, <<"#", "#", " ">>) THEN "h2"
  ELSE IF StartsWith(line_stripped, <<"#", "#", "#", " ">>) THEN "h3"
  ELSE IF StartsWith(line_stripped, <<"#", " ">>) THEN "h1"
  ELSE IF StartsWith(line_stripped, <<"-", "-", "-">>) THEN "separator"
  ELSE "content"

\* line_stripped.lstrip('## ').strip(): lstrip takes a set of characters
HeaderTitle(line_stripped) == Strip(LStripChars(line_stripped, {"#", " "}))

\* one piece appended to content_latex: the frame or section written, the
\* values interpolated into it, and the loop iteration that appended it
Block(kind, cell, variant, title, text, filename, caption, num_lines, body) ==
  [kind |-> kind, cell |-> cell, variant |-> variant, title |-> title,
   text |-> text, filename |-> filename, caption |-> caption,
   num_lines |-> num_lines, body |-> body]

\* f"\n\\section{{{section_title}}}\n\n"
SectionBlock(cell, section_title) ==
  Block("section", cell, "", section_title,
        <<NL>> \o SECTION \o section_title \o <<"}", NL, NL>>,
        <<>>, <<>>, 0, <<>>)

\* content_latex += convert_markdown_to_frame(title, '\n'.join(content))
AppendFrame(cl, cell, title, content) ==
  LET frame == ConvertMarkdownToFrame(title, JoinLines(content))
  IN IF frame = <<>> THEN cl
     ELSE Append(cl, Block("markdown", cell, "",
                           IF title = None THEN <<>> ELSE title[1],
                           frame, <<>>, <<>>, 0, content))

\* if in_frame and current_frame_content: content_latex += the frame
CloseFrame(cl, cell, open, title, content) ==
  IF open /\ content # <<>> THEN AppendFrame(cl, cell, title, content) ELSE cl

\* a code cell of more lines than this is left out of the slides
ExcludeAbove == 200

\* a code cell of more lines than this gets a frame that may break
BreakAbove == 50

\* code_cell['content'].count('\n') + 1
NumLines(content) == CountChar(content, NL) + 1

\* mutant of CodeVariant: the thresholds belong to the larger variant
CodeVariantInclusive(num_lines) ==
  IF num_lines >= ExcludeAbove THEN "excluded"
  ELSE IF num_lines >= BreakAbove THEN "allowframebreaks"
  ELSE "fragile"

\* which of the three code frames is written
CodeVariant(num_lines) ==
  IF num_lines > ExcludeAbove THEN "excluded"
  ELSE IF num_lines > BreakAbove THEN "allowframebreaks"
  ELSE "fragile"

CODE_CELL == <<"C", "o", "d", "e", ":", " ", "C", "e", "l", "l", " ">>
LARGE_FILE == <<" ", "(", "L", "a", "r", "g", "e", " ", "F", "i", "l", "e", " ", "-", " ">>
LINES_CLOSE == <<" ", "l", "i", "n", "e", "s", ")">>
CODE_FROM_CELL == <<"C", "o", "d", "e", " ", "f", "r", "o", "m", " ", "C", "e", "l", "l", " ">>

\* the frame written for the code cell of index idx
CodeBlock(idx, code_cell) ==
  LET filename  == CodeFilename(idx)
      num_lines == NumLines(code_cell.content)
      variant   == CodeVariant(num_lines)
  IN IF variant = "excluded"
     THEN Block("code", idx, variant,
                CODE_CELL \o Str(idx) \o LARGE_FILE \o Str(num_lines)
                  \o LINES_CLOSE,
                <<>>, filename, <<>>, num_lines, <<>>)
     ELSE Block("code", idx, variant, CODE_CELL \o Str(idx),
                <<>>, filename, CODE_FROM_CELL \o Str(idx), num_lines, <<>>)

LowerLetters ==
  << "a", "b", "c", "d", "e", "f", "g", "h", "i", "j", "k", "l", "m",
     "n", "o", "p", "q", "r", "s", "t", "u", "v", "w", "x", "y", "z" >>
UpperLetters ==
  << "A", "B", "C", "D", "E", "F", "G", "H", "I", "J", "K", "L", "M",
     "N", "O", "P", "Q", "R", "S", "T", "U", "V", "W", "X", "Y", "Z" >>

IsLetter(c) ==
  \E k \in 1..Len(LowerLetters) : c = LowerLetters[k] \/ c = UpperLetters[k]

\* c.upper() and c.lower()
UpperOf(c) ==
  IF \E k \in 1..Len(LowerLetters) : c = LowerLetters[k]
  THEN UpperLetters[CHOOSE k \in 1..Len(LowerLetters) : c = LowerLetters[k]]
  ELSE c

LowerOf(c) ==
  IF \E k \in 1..Len(UpperLetters) : c = UpperLetters[k]
  THEN LowerLetters[CHOOSE k \in 1..Len(UpperLetters) : c = UpperLetters[k]]
  ELSE c

\* s.title(): a letter after a non-letter in upper case, the others in lower
TitleCase(s) ==
  [i \in 1..Len(s) |->
     IF i = 1 \/ ~IsLetter(s[i - 1]) THEN UpperOf(s[i]) ELSE LowerOf(s[i])]

ANALYSIS_RESULT ==
  <<"A", "n", "a", "l", "y", "s", "i", "s", " ", "R", "e", "s", "u", "l", "t">>
OUTPUT_FROM_CELL ==
  <<"O", "u", "t", "p", "u", "t", " ", "f", "r", "o", "m", " ", "C", "e", "l", "l", " ">>

\* title = plot_type.replace('_', ' ').title() if plot_type else "Analysis Result"
ImageTitle(plot_type) ==
  IF Truthy(plot_type)
  THEN TitleCase(Replace(plot_type[1], <<"_">>, <<" ">>))
  ELSE ANALYSIS_RESULT

\* caption = title if plot_type else f"Output from Cell {cell_idx}"
ImageCaption(plot_type, idx) ==
  IF Truthy(plot_type) THEN ImageTitle(plot_type)
  ELSE OUTPUT_FROM_CELL \o Str(idx)

\* the frame written for one image of the cell of index idx
ImageBlock(idx, img) ==
  Block("image", idx, "", ImageTitle(img.plot_type), <<>>, img.filename,
        ImageCaption(img.plot_type, idx), 0, <<>>)

\* mutant of ImageBlocks: one frame per index, for its first image
ImageBlocksFirstOnly(idx, imgs) == <<ImageBlock(idx, imgs[1])>>

\* for img in images_by_cell[cell_idx]: one frame each, in list order
ImageBlocks(idx, imgs) == [i \in 1..Len(imgs) |-> ImageBlock(idx, imgs[i])]

\* ------------------------------------------------------------------------
\* bounded inputs of generate_beamer_with_content
\* ------------------------------------------------------------------------

\* lines per markdown cell
MaxMdLines == 3

\* code cells per call
MaxCodeCells == 2

\* images per call
MaxImages == 3

\* the notebook positions the cells may carry
CellIndices == {0, 2, 5}

\* markdown lines of every branch of the walk
MdLinePool ==
  { <<"#", " ", "S">>, <<"#", "#", " ", "S">>, <<"#", "#", "#", " ", "T">>,
    <<"-", "-", "-">>, <<"-", "-", "-", "q">>, <<"q">>, <<" ", "k">>, <<>> }

\* the lines of the cells that come in pairs
MdPairPool == { <<"#", "#", "#", " ", "T">>, <<"-", "-", "-">>, <<"q">>, <<>> }

MarkdownCell(idx, content) == [cell_index |-> idx, content |-> content]

\* n lines of code
CodeContent(n) == [i \in 1..(2 * n - 1) |-> IF i % 2 = 1 THEN "x" ELSE NL]

\* line counts at and around the two thresholds
CodeLineCounts ==
  {1, BreakAbove, BreakAbove + 1, ExcludeAbove, ExcludeAbove + 1}

CodeCell(idx, n) == [cell_index |-> idx, content |-> CodeContent(n)]

CodeCellPool == {CodeCell(c, n) : c \in CellIndices, n \in CodeLineCounts}

\* plot_type: None as infer_plot_type returns it, or a category
PlotTypes == {None, Some(<<"a", "_", "b", "C">>)}

FIGURE == <<"f", "i", "g", "u", "r", "e">>
PNG == <<".", "p", "n", "g">>

\* the filename extract_images_from_notebook gives the counter-th image
ImageFilename(plot_type, counter) ==
  (IF Truthy(plot_type) THEN plot_type[1] ELSE FIGURE)
    \o <<"_">> \o Pad3(counter) \o PNG

\* the images list of a notebook whose i-th image is described by specs[i]
ImagesOf(specs) ==
  [i \in 1..Len(specs) |->
     [cell_index |-> specs[i][1], plot_type |-> specs[i][2],
      filename |-> ImageFilename(specs[i][2], i)]]

Inputs(md, code, imgs) == [md |-> md, code |-> code, imgs |-> imgs]

\* one markdown cell of up to n lines
OneMarkdownInputs(n) ==
  { Inputs(<<MarkdownCell(c, JoinLines(ls))>>, <<>>, <<>>) :
      c \in CellIndices, ls \in SeqsUpTo(MdLinePool, n) }

\* two markdown cells, in either order and with equal indices too
TwoMarkdownInputs(n) ==
  { Inputs(<<MarkdownCell(c[1], JoinLines(ls[1])),
             MarkdownCell(c[2], JoinLines(ls[2]))>>, <<>>, <<>>) :
      c \in CellIndices \X CellIndices,
      ls \in SeqsUpTo(MdPairPool, n - 1) \X SeqsUpTo(MdPairPool, n - 1) }

\* up to n code cells in any order, with or without a markdown cell
CodeInputs(n) ==
  { Inputs(md, code, <<>>) :
      md \in {<<>>, <<MarkdownCell(2, <<"q">>)>>},
      code \in SeqsUpTo(CodeCellPool, n) }

\* up to n images in any order, with or without a markdown and a code cell
ImageInputs(n) ==
  { Inputs(md, code, ImagesOf(specs)) :
      md \in {<<>>, <<MarkdownCell(5, <<"q">>)>>},
      code \in {<<>>, <<CodeCell(0, 1)>>, <<CodeCell(5, 1)>>},
      specs \in SeqsUpTo(CellIndices \X PlotTypes, n) }

\* generate_beamer_with_content is called with the three lists of inp
CalledWith(inp) ==
  /\ markdown_cells = inp.md
  /\ code_cells = inp.code
  /\ images = inp.imgs

\* ------------------------------------------------------------------------
\* generate_beamer_with_content, one step per statement group
\* ------------------------------------------------------------------------

AsmInit ==
  /\ \/ \E inp \in OneMarkdownInputs(MaxMdLines) : CalledWith(inp)
     \/ \E inp \in TwoMarkdownInputs(MaxMdLines) : CalledWith(inp)
     \/ \E inp \in CodeInputs(MaxCodeCells) : CalledWith(inp)
     \/ \E inp \in ImageInputs(MaxImages) : CalledWith(inp)
  /\ content_latex = <<>> /\ pc = "start" /\ todo = <<>> /\ cell_idx = 0
  /\ lines = <<>> /\ in_frame = FALSE /\ current_frame_title = None
  /\ current_frame_content = <<>>

\* the mappings by cell index and the sorted timeline
BuildTimeline ==
  /\ pc = "start"
  /\ todo' = Timeline(images, markdown_cells, code_cells)
  /\ pc' = "loop"
  /\ UNCHANGED <<images, markdown_cells, code_cells, content_latex, cell_idx,
                 lines, in_frame, current_frame_title, current_frame_content>>
  /\ UNCHANGED <<trVars, mainVars, titleVars>>

\* the loop takes the next index; a markdown cell with content is split
NextCell ==
  /\ pc = "loop" /\ todo # <<>>
  /\ cell_idx' = Head(todo)
  /\ todo' = Tail(todo)
  /\ LET md_cell == FirstMarkdownCell(markdown_cells, Head(todo))
         content == IF md_cell = None THEN <<>> ELSE Strip(md_cell[1].content)
     IN IF content # <<>>
        THEN /\ lines' = SplitLines(content)
             /\ current_frame_content' = <<>>
             /\ current_frame_title' = None
             /\ in_frame' = FALSE
             /\ pc' = "markdown"
        ELSE /\ pc' = "code"
             /\ UNCHANGED <<lines, in_frame, current_frame_title,
                            current_frame_content>>
  /\ UNCHANGED <<images, markdown_cells, code_cells, content_latex>>
  /\ UNCHANGED <<trVars, mainVars, titleVars>>

\* a line of the cell is next, and it takes the branch kind
AtLine(kind) ==
  /\ pc = "markdown" /\ lines # <<>>
  /\ LineKind(Strip(Head(lines))) = kind

\* "# " and "## ": close the open frame, write a section
SectionLine ==
  /\ AtLine("h2") \/ AtLine("h1")
  /\ content_latex' =
       Append(CloseFrame(content_latex, cell_idx, in_frame,
                         current_frame_title, current_frame_content),
              SectionBlock(cell_idx, HeaderTitle(Strip(Head(lines)))))
  /\ current_frame_content' =
       IF in_frame /\ current_frame_content # <<>> THEN <<>>
       ELSE current_frame_content
  /\ in_frame' = FALSE
  /\ current_frame_title' = None
  /\ lines' = Tail(lines)
  /\ UNCHANGED <<images, markdown_cells, code_cells, pc, todo, cell_idx>>
  /\ UNCHANGED <<trVars, mainVars, titleVars>>

\* "### ": close the open frame, start a frame with this title
FrameTitleLine ==
  /\ AtLine("h3")
  /\ content_latex' =
       CloseFrame(content_latex, cell_idx, in_frame, current_frame_title,
                  current_frame_content)
  /\ current_frame_content' =
       IF in_frame /\ current_frame_content # <<>> THEN <<>>
       ELSE current_frame_content
  /\ current_frame_title' = Some(HeaderTitle(Strip(Head(lines))))
  /\ in_frame' = TRUE
  /\ lines' = Tail(lines)
  /\ UNCHANGED <<images, markdown_cells, code_cells, pc, todo, cell_idx>>
  /\ UNCHANGED <<trVars, mainVars, titleVars>>

\* "---": close the open frame, if it has content
SeparatorLine ==
  /\ AtLine("separator")
  /\ IF in_frame /\ current_frame_content # <<>>
     THEN /\ content_latex' =
               AppendFrame(content_latex, cell_idx, current_frame_title,
                           current_frame_content)
          /\ current_frame_content' = <<>>
          /\ in_frame' = FALSE
          /\ current_frame_title' = None
     ELSE UNCHANGED <<content_latex, current_frame_content, in_frame,
                      current_frame_title>>
  /\ lines' = Tail(lines)
  /\ UNCHANGED <<images, markdown_cells, code_cells, pc, todo, cell_idx>>
  /\ UNCHANGED <<trVars, mainVars, titleVars>>

\* mutant of Collects: every content line is appended
CollectsAlways(open, line) == TRUE

\* whether a content line is appended to current_frame_content
Collects(open, line) == open \/ Strip(line) # <<>>

\* any other line: open an untitled frame if none is open, collect the line
ContentLine ==
  /\ AtLine("content")
  /\ in_frame' = (in_frame \/ Strip(Head(lines)) # <<>>)
  /\ current_frame_title' =
       IF ~in_frame /\ Strip(Head(lines)) # <<>> THEN Some(<<>>)
       ELSE current_frame_title
  /\ current_frame_content' =
       IF Collects(in_frame, Head(lines))
       THEN Append(current_frame_content, Head(lines))
       ELSE current_frame_content
  /\ lines' = Tail(lines)
  /\ UNCHANGED <<images, markdown_cells, code_cells, content_latex, pc, todo,
                 cell_idx>>
  /\ UNCHANGED <<trVars, mainVars, titleVars>>

\* after the last line: close the final frame if open
CloseFinalFrame ==
  /\ pc = "markdown" /\ lines = <<>>
  /\ content_latex' =
       CloseFrame(content_latex, cell_idx, in_frame, current_frame_title,
                  current_frame_content)
  /\ pc' = "code"
  /\ UNCHANGED <<images, markdown_cells, code_cells, todo, cell_idx, lines,
                 in_frame, current_frame_title, current_frame_content>>
  /\ UNCHANGED <<trVars, mainVars, titleVars>>

\* if cell_idx in code_by_cell: one code frame
CodeFrame ==
  /\ pc = "code"
  /\ content_latex' =
       IF cell_idx \in DOMAIN CodeByCell(code_cells)
       THEN Append(content_latex,
                   CodeBlock(cell_idx, CodeByCell(code_cells)[cell_idx]))
       ELSE content_latex
  /\ pc' = "images"
  /\ UNCHANGED <<images, markdown_cells, code_cells, todo, cell_idx, lines,
                 in_frame, current_frame_title, current_frame_content>>
  /\ UNCHANGED <<trVars, mainVars, titleVars>>

\* if cell_idx in images_by_cell: one frame per image
ImageFrames ==
  /\ pc = "images"
  /\ content_latex' =
       IF cell_idx \in DOMAIN ImagesByCell(images)
       THEN content_latex
              \o ImageBlocks(cell_idx, ImagesByCell(images)[cell_idx])
       ELSE content_latex
  /\ pc' = "loop"
  /\ UNCHANGED <<images, markdown_cells, code_cells, todo, cell_idx, lines,
                 in_frame, current_frame_title, current_frame_content>>
  /\ UNCHANGED <<trVars, mainVars, titleVars>>

\* the loop is over: the content goes into the template
Finish ==
  /\ pc = "loop" /\ todo = <<>>
  /\ pc' = "done"
  /\ UNCHANGED <<images, markdown_cells, code_cells, content_latex, todo,
                 cell_idx, lines, in_frame, current_frame_title,
                 current_frame_content>>
  /\ UNCHANGED <<trVars, mainVars, titleVars>>

Next ==
  \/ BuildTimeline \/ NextCell \/ SectionLine \/ FrameTitleLine
  \/ SeparatorLine \/ ContentLine \/ CloseFinalFrame \/ CodeFrame
  \/ ImageFrames \/ Finish

Init == AsmInit /\ TrIdle /\ MainIdle /\ TitleIdle

\* generate_beamer_with_content on every bounded input
Spec == Init /\ [][Next]_vars

\* ------------------------------------------------------------------------
\* properties of generate_beamer_with_content (Spec)
\* ------------------------------------------------------------------------

\* the pieces of one kind written so far, and those written at one index
BlocksOf(kind) == SelectSeq(content_latex, LAMBDA b : b.kind = kind)

BlocksAt(kind, idx) ==
  SelectSeq(content_latex, LAMBDA b : b.kind = kind /\ b.cell = idx)

\* markdown output (sections and frames) first, then code, then images
KindRank(kind) ==
  IF kind \in {"section", "markdown"} THEN 1 ELSE IF kind = "code" THEN 2 ELSE 3

\* the lines the walk of a markdown cell goes over
WalkedLines(md_cell) == SplitLines(Strip(md_cell.content))

\* the piece b was made from an input that carries the index b.cell
FromIndex(b) ==
  IF b.kind = "code"
  THEN /\ \E k \in 1..Len(code_cells) : code_cells[k].cell_index = b.cell
       /\ b.filename = <<"c", "e", "l", "l", "_", "0", "0">>
                         \o <<DigitChars[b.cell + 1]>> \o <<".", "p", "y">>
  ELSE IF b.kind = "image"
  THEN \E k \in 1..Len(images) :
         images[k].cell_index = b.cell /\ images[k].filename = b.filename
  ELSE /\ \E k \in 1..Len(markdown_cells) :
            markdown_cells[k].cell_index = b.cell
       /\ \A n \in 1..Len(b.body) :
            \E k \in 1..Len(markdown_cells) :
              /\ markdown_cells[k].cell_index = b.cell
              /\ \E m \in 1..Len(WalkedLines(markdown_cells[k])) :
                   WalkedLines(markdown_cells[k])[m] = b.body[n]

\* C1: whatever the order of the three input lists, the content is written in
\* ascending order of cell index over the union of the indices, and at one
\* index the markdown output comes before the code frame, which comes before
\* the image frames: no piece of a higher index ever precedes a piece of a
\* lower index, every piece comes from an input of its index, and at the end
\* every index of a code cell or an image has its output.
C1_Order ==
  /\ \A i, j \in 1..Len(content_latex) :
       i < j =>
         /\ content_latex[i].cell <= content_latex[j].cell
         /\ content_latex[i].cell = content_latex[j].cell =>
              KindRank(content_latex[i].kind) <= KindRank(content_latex[j].kind)
  /\ \A i \in 1..Len(content_latex) : FromIndex(content_latex[i])
  /\ pc = "done" =>
       \A c \in IndexSet(code_cells) \cup IndexSet(images) :
         \E i \in 1..Len(content_latex) : content_latex[i].cell = c

\* C1 witness: images were supplied in descending order of index, and one
\* index has a markdown frame, then its code frame, then an image frame
C1_Witness ==
  /\ pc = "done"
  /\ Len(images) >= 2 /\ images[1].cell_index > images[2].cell_index
  /\ \E i, j, k \in 1..Len(content_latex) :
       /\ i < j /\ j < k
       /\ content_latex[i].kind = "markdown" /\ content_latex[j].kind = "code"
       /\ content_latex[k].kind = "image"
       /\ content_latex[i].cell = content_latex[k].cell
       /\ content_latex[j].cell = content_latex[k].cell

\* no two cells of the list carry the same index
UniqueIndices(cells) ==
  \A i, j \in 1..Len(cells) : cells[i].cell_index = cells[j].cell_index => i = j

\* how many of the letters that only content lines hold are in s
ContentLetters(s) == CountChar(s, "q") + CountChar(s, "k")

RECURSIVE Concat(_)
Concat(seqs) == IF seqs = <<>> THEN <<>> ELSE Head(seqs) \o Concat(Tail(seqs))

\* the bodies of the markdown frames of index idx, one after the other
FrameBodies(idx) ==
  Concat([i \in 1..Len(BlocksAt("markdown", idx)) |->
            BlocksAt("markdown", idx)[i].body])

\* the texts of the markdown frames of index idx, one after the other
FrameTexts(idx) ==
  Concat([i \in 1..Len(BlocksAt("markdown", idx)) |->
            BlocksAt("markdown", idx)[i].text])

IsHeaderLine(line) == LineKind(Strip(line)) \in {"h1", "h2", "h3"}

\* every code cell has one code frame, every image one image frame
OneFramePerCodeAndImage ==
  /\ Len(BlocksOf("code")) = Len(code_cells)
  /\ \A k \in 1..Len(code_cells) :
       Len(BlocksAt("code", code_cells[k].cell_index)) = 1
  /\ Len(BlocksOf("image")) = Len(images)
  /\ \A k \in 1..Len(images) :
       Cardinality({i \in 1..Len(content_latex) :
                      /\ content_latex[i].kind = "image"
                      /\ content_latex[i].filename = images[k].filename}) = 1

\* the lines of each markdown cell that pass wanted are, in order and each
\* once, the non-blank lines of the bodies of the frames of its index, their
\* letters are in the text of those frames, and no frame has a blank body
LinesInFrames(wanted(_)) ==
  /\ \A k \in 1..Len(markdown_cells) :
       LET idx  == markdown_cells[k].cell_index
           kept == SelectSeq(NonBlankLines(WalkedLines(markdown_cells[k])),
                             wanted)
       IN /\ NonBlankLines(FrameBodies(idx)) = kept
          /\ ContentLetters(FrameTexts(idx)) = ContentLetters(Concat(kept))
  /\ \A i \in 1..Len(content_latex) :
       content_latex[i].kind = "markdown" =>
         NonBlankLines(content_latex[i].body) # <<>>

C2_Applies ==
  pc = "done" /\ UniqueIndices(markdown_cells) /\ UniqueIndices(code_cells)

\* C2 as stated: with indices unique within the markdown cells and within the
\* code cells, every code cell has exactly one code frame, every image exactly
\* one image frame, and every non-blank markdown line that is neither a header
\* nor the separator --- is in the body of exactly one markdown frame; only
\* frames with a blank body are left out.
C2_NothingDropped ==
  C2_Applies =>
    /\ OneFramePerCodeAndImage
    /\ LinesInFrames(LAMBDA l : ~IsHeaderLine(l) /\ Strip(l) # <<"-", "-", "-">>)

\* what holds instead: the same with every line that starts with --- taken
\* for a separator
C2_ExceptDashLines ==
  C2_Applies =>
    /\ OneFramePerCodeAndImage
    /\ LinesInFrames(LAMBDA l : ~IsHeaderLine(l)
                                  /\ ~StartsWith(Strip(l), <<"-", "-", "-">>))

\* the code cell the frame of index idx was made from
SourceCode(idx) == CodeByCell(code_cells)[idx]

Filenames(seq) == [i \in 1..Len(seq) |-> seq[i].filename]

\* C4: every image has exactly one frame, which embeds it by its stored
\* filename; the frames of the images of one index are in the input order of
\* those images; an image without a category has the title "Analysis Result"
\* and the caption "Output from Cell N", N being its cell index; and with no
\* markdown cell, no code cell and one image at index 5 exactly one frame is
\* written.
C4_ImageFrames ==
  pc = "done" =>
    /\ Len(BlocksOf("image")) = Len(images)
    /\ \A c \in IndexSet(images) :
         Filenames(BlocksAt("image", c))
           = Filenames(SelectSeq(images, LAMBDA im : im.cell_index = c))
    /\ \A k \in 1..Len(images) :
         \E i \in 1..Len(content_latex) :
           LET b == content_latex[i]
           IN /\ b.kind = "image" /\ b.filename = images[k].filename
              /\ b.cell = images[k].cell_index
              /\ images[k].plot_type = None =>
                   /\ b.title = ANALYSIS_RESULT
                   /\ b.caption = OUTPUT_FROM_CELL
                                    \o <<DigitChars[images[k].cell_index + 1]>>
    /\ (markdown_cells = <<>> /\ code_cells = <<>> /\ Len(images) = 1
          /\ images[1].cell_index = 5)
         => Len(content_latex) = 1

\* C4 witness: the only input was one image at index 5 without a category
C4_Witness ==
  /\ pc = "done"
  /\ markdown_cells = <<>> /\ code_cells = <<>> /\ Len(images) = 1
  /\ images[1].cell_index = 5 /\ images[1].plot_type = None
  /\ Len(content_latex) = 1 /\ content_latex[1].title = ANALYSIS_RESULT

\* ------------------------------------------------------------------------
\* main: what it finds on disk and what it writes
\* ------------------------------------------------------------------------

\* code cells with content in the notebook
MaxNbCode == 2

\* images in the outputs of the notebook
MaxNbImages == 2

\* UNIVERSITY_THEMES.keys()
ThemeKeys == {"cu", "mit", "stanford", "fiu"}

\* sys.argv: no notebook, a notebook, a notebook and a theme
Argvs ==
  { <<"prog">>, <<"prog", "nb.ipynb">>, <<"prog", "nb.ipynb", "mit">>,
    <<"prog", "nb.ipynb", "zz">> }

\* assets/logos next to the script: with the logo, without it, or missing
LogoStates == {"logo", "no_logo", "no_dir"}

\* everything main reads from its surroundings
Envs ==
  [ argv : Argvs, notebook_exists : BOOLEAN,
    n_code : 0..MaxNbCode, n_images : 0..MaxNbImages,
    beamer_template : BOOLEAN, shell_template : BOOLEAN,
    batch_template : BOOLEAN, logos : LogoStates,
    windows : BOOLEAN, tectonic : BOOLEAN, scoop : BOOLEAN ]

Dir(name) == [kind |-> "dir", name |-> name, n |-> 0]
File(name, n) == [kind |-> "file", name |-> name, n |-> n]

\* the three os.makedirs calls of main, which make the parents too
OutputDirs ==
  { Dir("output"), Dir("output/assets"), Dir("output/assets/figures"),
    Dir("output/assets/code") }

\* save_code_cells_to_files: one file per code cell
CodeFiles(n_code) == {File("output/assets/code/cell.py", k) : k \in 1..n_code}

\* extract_images_from_notebook: one file per image, by image_counter
ImageFiles(n_images) ==
  {File("output/assets/figures/figure.png", k) : k \in 1..n_images}

PresentationFile == File("output/presentation.tex", 0)

ScriptFiles ==
  { File("output/compile_presentation.sh", 0),
    File("output/compile_presentation.bat", 0) }

\* theme = sys.argv[2] if len(sys.argv) > 2 else 'cu'
ThemeOf(argv) == IF Len(argv) > 2 THEN argv[3] ELSE "cu"

\* mutant of AfterNotebookCheck: the run goes on without the notebook
AfterNotebookCheckAlways(exists) == "makedirs"

\* if not os.path.exists(notebook_path): sys.exit(1)
AfterNotebookCheck(exists) == IF exists THEN "makedirs" ELSE "exit"

\* why generate_beamer_with_content raises, "" if it does not: load_template
\* needs the template, ensure_logo_exists a directory to write the logo into
GenerateError(e) ==
  IF ~e.beamer_template THEN "template_not_found"
  ELSE IF e.logos = "no_dir" THEN "logo_dir_not_found"
  ELSE ""

\* why create_compile_script raises, "" if it does not
CompileScriptError(e) ==
  IF ~e.shell_template THEN "shell_template_not_found"
  ELSE IF ~e.batch_template THEN "batch_template_not_found"
  ELSE ""

MainInit ==
  /\ m_pc = "args" /\ env \in Envs /\ tree = {} /\ ran = {} /\ m_error = ""

\* if len(sys.argv) < 2: usage, sys.exit(1)
CheckArgs ==
  /\ m_pc = "args"
  /\ IF Len(env.argv) < 2
     THEN m_pc' = "exit" /\ m_error' = "usage"
     ELSE m_pc' = "theme" /\ UNCHANGED m_error
  /\ UNCHANGED <<env, tree, ran>>
  /\ UNCHANGED <<trVars, asmVars, titleVars>>

\* if theme not in UNIVERSITY_THEMES: sys.exit(1)
CheckTheme ==
  /\ m_pc = "theme"
  /\ IF ThemeOf(env.argv) \notin ThemeKeys
     THEN m_pc' = "exit" /\ m_error' = "unknown_theme"
     ELSE m_pc' = "notebook" /\ UNCHANGED m_error
  /\ UNCHANGED <<env, tree, ran>>
  /\ UNCHANGED <<trVars, asmVars, titleVars>>

\* if not os.path.exists(notebook_path): sys.exit(1)
CheckNotebook ==
  /\ m_pc = "notebook"
  /\ m_pc' = AfterNotebookCheck(env.notebook_exists)
  /\ m_error' = IF AfterNotebookCheck(env.notebook_exists) = "exit"
                THEN "notebook_not_found" ELSE m_error
  /\ UNCHANGED <<env, tree, ran>>
  /\ UNCHANGED <<trVars, asmVars, titleVars>>

\* output, output/assets/figures, output/assets/code
MakeDirs ==
  /\ m_pc = "makedirs"
  /\ tree' = tree \cup OutputDirs
  /\ m_pc' = "extract_markdown"
  /\ UNCHANGED <<env, ran, m_error>>
  /\ UNCHANGED <<trVars, asmVars, titleVars>>

\* step 1
ExtractMarkdown ==
  /\ m_pc = "extract_markdown"
  /\ ran' = ran \cup {"extract_markdown_cells"}
  /\ m_pc' = "extract_code"
  /\ UNCHANGED <<env, tree, m_error>>
  /\ UNCHANGED <<trVars, asmVars, titleVars>>

\* step 2
ExtractCode ==
  /\ m_pc = "extract_code"
  /\ ran' = ran \cup {"extract_code_cells"}
  /\ m_pc' = "save_code"
  /\ UNCHANGED <<env, tree, m_error>>
  /\ UNCHANGED <<trVars, asmVars, titleVars>>

\* step 3: the code files are written
SaveCodeFiles ==
  /\ m_pc = "save_code"
  /\ ran' = ran \cup {"save_code_cells_to_files"}
  /\ tree' = tree \cup CodeFiles(env.n_code)
  /\ m_pc' = "extract_images"
  /\ UNCHANGED <<env, m_error>>
  /\ UNCHANGED <<trVars, asmVars, titleVars>>

\* step 4: the image files are written
ExtractImages ==
  /\ m_pc = "extract_images"
  /\ ran' = ran \cup {"extract_images_from_notebook"}
  /\ tree' = tree \cup ImageFiles(env.n_images)
  /\ m_pc' = "generate"
  /\ UNCHANGED <<env, m_error>>
  /\ UNCHANGED <<trVars, asmVars, titleVars>>

\* step 5: generate_beamer_with_content; FileNotFoundError is not caught
Generate ==
  /\ m_pc = "generate"
  /\ ran' = ran \cup {"generate_beamer_with_content"}
  /\ m_error' = GenerateError(env)
  /\ m_pc' = IF GenerateError(env) # "" THEN "raised" ELSE "save_presentation"
  /\ UNCHANGED <<env, tree>>
  /\ UNCHANGED <<trVars, asmVars, titleVars>>

\* save_presentation writes output/presentation.tex
SavePresentation ==
  /\ m_pc = "save_presentation"
  /\ ran' = ran \cup {"save_presentation"}
  /\ tree' = tree \cup {PresentationFile}
  /\ m_pc' = "compile_script"
  /\ UNCHANGED <<env, m_error>>
  /\ UNCHANGED <<trVars, asmVars, titleVars>>

\* step 6: create_compile_script reads both templates, then writes both files
CreateCompileScript ==
  /\ m_pc = "compile_script"
  /\ ran' = ran \cup {"create_compile_script"}
  /\ m_error' = CompileScriptError(env)
  /\ IF CompileScriptError(env) # ""
     THEN m_pc' = "raised" /\ UNCHANGED tree
     ELSE m_pc' = "copy_logos" /\ tree' = tree \cup ScriptFiles
  /\ UNCHANGED env
  /\ UNCHANGED <<trVars, asmVars, titleVars>>

\* if logo_src.exists(): shutil.copytree(logo_src, logo_dst)
CopyLogos ==
  /\ m_pc = "copy_logos"
  /\ tree' = IF env.logos # "no_dir"
             THEN tree \cup {Dir("output/assets/logos")} ELSE tree
  /\ m_pc' = "check_compiler"
  /\ UNCHANGED <<env, ran, m_error>>
  /\ UNCHANGED <<trVars, asmVars, titleVars>>

\* step 7, on Windows without tectonic and without scoop: return
CheckCompiler ==
  /\ m_pc = "check_compiler"
  /\ m_pc' = IF env.windows /\ ~env.tectonic /\ ~env.scoop
             THEN "done" ELSE "compile"
  /\ UNCHANGED <<env, tree, ran, m_error>>
  /\ UNCHANGED <<trVars, asmVars, titleVars>>

\* the compile script runs; it may or may not leave a PDF
Compile ==
  /\ m_pc = "compile"
  /\ ran' = ran \cup {"compile"}
  /\ \E compile_success \in BOOLEAN :
       tree' = IF compile_success
               THEN tree \cup {File("output/presentation.pdf", 0)} ELSE tree
  /\ m_pc' = "done"
  /\ UNCHANGED <<env, m_error>>
  /\ UNCHANGED <<trVars, asmVars, titleVars>>

MainNext ==
  \/ CheckArgs \/ CheckTheme \/ CheckNotebook \/ MakeDirs
  \/ ExtractMarkdown \/ ExtractCode \/ SaveCodeFiles \/ ExtractImages
  \/ Generate \/ SavePresentation \/ CreateCompileScript \/ CopyLogos
  \/ CheckCompiler \/ Compile

InitMain == MainInit /\ TrIdle /\ AsmIdle /\ TitleIdle

\* main in every bounded surrounding
SpecMain == InitMain /\ [][MainNext]_vars

\* ------------------------------------------------------------------------
\* properties of main (SpecMain)
\* ------------------------------------------------------------------------

FilesWritten == {f \in tree : f.kind = "file"}

TemplateErrors ==
  {"template_not_found", "shell_template_not_found", "batch_template_not_found"}

\* C5 as stated: when main aborts over a missing template (the Beamer
\* template or a compile script template), no code file, image file or
\* presentation file has been written to the output tree.
C5_NoOutputAtAbort ==
  (m_pc = "raised" /\ m_error \in TemplateErrors) => FilesWritten = {}

\* C6: when the notebook does not exist, main reports it and exits: no
\* directory and no file of the output tree is ever created and no
\* extraction, generation or compilation step ever starts.
C6_MissingNotebook ==
  (Len(env.argv) >= 2 /\ ~env.notebook_exists) =>
    /\ tree = {} /\ ran = {}
    /\ m_pc \in {"args", "theme", "notebook", "exit"}
    /\ m_pc = "exit" =>
         m_error = IF ThemeOf(env.argv) \in ThemeKeys
                   THEN "notebook_not_found" ELSE "unknown_theme"

\* C6 witness: main has exited over the missing notebook
C6_Witness ==
  /\ m_pc = "exit" /\ m_error = "notebook_not_found"
  /\ ~env.notebook_exists /\ tree = {} /\ ran = {}

\* ------------------------------------------------------------------------
\* extract_title_info: literals and regular expressions
\* ------------------------------------------------------------------------

PRESENTATION == <<"P", "r", "e", "s", "e", "n", "t", "a", "t", "i", "o", "n">>
AUTHOR == <<"A", "u", "t", "h", "o", "r">>
INSTITUTE == <<"I", "n", "s", "t", "i", "t", "u", "t", "e">>
UNIVERSITY == <<"U", "n", "i", "v", "e", "r", "s", "i", "t", "y">>
COLLEGE == <<"C", "o", "l", "l", "e", "g", "e">>
COLORADO_BOULDER ==
  << "C", "o", "l", "o", "r", "a", "d", "o", " ", "B", "o", "u", "l", "d", "e", "r" >>
UNIVERSITY_OF == UNIVERSITY \o <<" ", "o", "f", " ">>
CU_BOULDER == UNIVERSITY_OF \o COLORADO_BOULDER

\* the generic section headers that are no subtitle
ExcludedSubtitles ==
  { <<"p", "r", "o", "b", "l", "e", "m", " ", "s", "t", "a", "t", "e", "m", "e", "n", "t">>,
    <<"o", "b", "j", "e", "c", "t", "i", "v", "e", "s">>,
    <<"i", "n", "t", "r", "o", "d", "u", "c", "t", "i", "o", "n">>,
    <<"t", "h", "e", " ", "d", "a", "t", "a", "s", "e", "t">>,
    <<"e", "d", "a">>,
    <<"m", "o", "d", "e", "l", "s">>,
    <<"d", "e", "l", "i", "v", "e", "r", "a", "b", "l", "e", "s">> }

\* s.lower()
Lower(s) == [i \in 1..Len(s) |-> LowerOf(s[i])]

\* [A-Z]
IsUpper(c) == \E k \in 1..Len(UpperLetters) : c = UpperLetters[k]

\* [a-zA-Z\s]
IsNameChar(c) == IsLetter(c) \/ c \in Whitespace

\* last index of the run of [a-zA-Z\s] that starts at i (i - 1 when empty)
NameRunEnd(s, i) ==
  LET stop == {j \in i..Len(s) : ~IsNameChar(s[j])}
  IN IF stop = {} THEN Len(s) ELSE Min(stop) - 1

\* [A-Z][a-zA-Z\s]+ matches at g: an upper-case letter and a run after it
NameAt(s, g) ==
  /\ g + 1 <= Len(s)
  /\ IsUpper(s[g])
  /\ IsNameChar(s[g + 1])

\* [Ll]abel at p: the first letter in either case, the others as written
LabelAt(s, p, label) ==
  /\ p + Len(label) - 1 <= Len(s)
  /\ s[p] \in {label[1], LowerOf(label[1])}
  /\ \A k \in 2..Len(label) : s[p + k - 1] = label[k]

\* where the name starts when [Ll]abel:?\s+ matches at p
LabelNameStart(s, p, label) ==
  LET q == p + Len(label)
      r == IF q <= Len(s) /\ s[q] = ":" THEN q + 1 ELSE q
  IN IF SkipSpace(s, r) > r THEN SkipSpace(s, r) ELSE 0

\* re.search(r'[Ll]abel:?\s+([A-Z][a-zA-Z\s]+)', s).group(1), or None
LabelledName(s, label) ==
  LET starts == {p \in 1..Len(s) :
                   /\ LabelAt(s, p, label)
                   /\ LabelNameStart(s, p, label) > 0
                   /\ NameAt(s, LabelNameStart(s, p, label))}
  IN IF starts = {} THEN None
     ELSE LET g == LabelNameStart(s, Min(starts), label)
          IN Some(SubSeq(s, g, NameRunEnd(s, g + 1)))

\* where [^*]+ starts when I,?\s+\*\* matches at p (0 when it does not)
DeclaredNameStart(s, p) ==
  LET q == IF p + 1 <= Len(s) /\ s[p + 1] = "," THEN p + 2 ELSE p + 1
      g == SkipSpace(s, q)
  IN IF s[p] = "I" /\ g > q /\ StartsAt(s, g, <<"*", "*">>) THEN g + 2 ELSE 0

\* last index of the run of [^*] that starts at i
NoStarRunEnd(s, i) ==
  LET stop == {j \in i..Len(s) : s[j] = "*"}
  IN IF stop = {} THEN Len(s) ELSE Min(stop) - 1

\* re.search(r'I,?\s+\*\*([^*]+)\*\*,', s).group(1), or None
DeclaredName(s) ==
  LET starts == {p \in 1..Len(s) :
                   LET g == DeclaredNameStart(s, p)
                   IN /\ g > 0
                      /\ NoStarRunEnd(s, g) >= g
                      /\ StartsAt(s, NoStarRunEnd(s, g) + 1, <<"*", "*", ",">>)}
  IN IF starts = {} THEN None
     ELSE LET g == DeclaredNameStart(s, Min(starts))
          IN Some(SubSeq(s, g, NoStarRunEnd(s, g)))

\* mutant of AuthorCaptures: Author: is tried before I, **Name**,
AuthorCapturesLabelFirst(s) ==
  << LabelledName(s, AUTHOR), DeclaredName(s),
     LabelledName(s, <<"B", "y">>), LabelledName(s, <<"N", "a", "m", "e">>) >>

\* what each of author_patterns captures in s, in the order of the list
AuthorCaptures(s) ==
  << DeclaredName(s), LabelledName(s, AUTHOR),
     LabelledName(s, <<"B", "y">>), LabelledName(s, <<"N", "a", "m", "e">>) >>

\* for pattern in patterns: the first capture there is, stripped, or default
FirstCapture(captures, default) ==
  LET hits == {k \in 1..Len(captures) : captures[k] # None}
  IN IF hits = {} THEN default ELSE Strip(captures[Min(hits)][1])

\* re.search(re.escape(literal)): the literal itself when it occurs
LiteralIn(s, literal) ==
  IF \E p \in 1..Len(s) : StartsAt(s, p, literal) THEN Some(literal) ELSE None

\* re.search(r'(University of [A-Z][a-zA-Z\s]+)', s).group(1), or None
UniversityOf(s) ==
  LET starts == {p \in 1..Len(s) :
                   /\ StartsAt(s, p, UNIVERSITY_OF)
                   /\ NameAt(s, p + Len(UNIVERSITY_OF))}
  IN IF starts = {} THEN None
     ELSE LET m == Min(starts)
          IN Some(SubSeq(s, m, NameRunEnd(s, m + Len(UNIVERSITY_OF) + 1)))

\* where [a-zA-Z\s]+ can end when [A-Z] is at p and ' word' has to follow
SuffixStarts(s, p, word) ==
  {j \in (p + 1)..NameRunEnd(s, p + 1) : StartsAt(s, j + 1, <<" ">> \o word)}

\* re.search(r'([A-Z][a-zA-Z\s]+ word)', s).group(1), or None: the greedy
\* run gives back characters until ' word' follows
NamedPlace(s, word) ==
  LET starts == {p \in 1..Len(s) :
                   IsUpper(s[p]) /\ SuffixStarts(s, p, word) # {}}
  IN IF starts = {} THEN None
     ELSE LET m == Min(starts)
          IN Some(SubSeq(s, m, Max(SuffixStarts(s, m, word)) + Len(word) + 1))

\* what each of institute_patterns captures in s, in the order of the list
InstituteCaptures(s) ==
  << LiteralIn(s, CU_BOULDER), LiteralIn(s, COLORADO_BOULDER), UniversityOf(s),
     NamedPlace(s, UNIVERSITY), NamedPlace(s, COLLEGE), NamedPlace(s, INSTITUTE) >>

\* "Colorado Boulder" is normalized to the full name
NormalizeInstitute(name) ==
  IF name = COLORADO_BOULDER THEN CU_BOULDER ELSE name

\* '\n'.join([cell['content'] for cell in markdown_cells])
AllContent(cells) == JoinLines([i \in 1..Len(cells) |-> cells[i].content])

\* ------------------------------------------------------------------------
\* bounded inputs of extract_title_info
\* ------------------------------------------------------------------------

\* lines of the first markdown cell
MaxTitleLines == 3

\* heading lines of the three levels, an ordinary line and a blank one
TitleLinePool ==
  { <<"#", " ", "A", "b">>,
    <<"#", "#", " ", "C", "d">>,
    <<"#", "#", "#", " ", "E", "f">>,
    <<"#", "#", "#", " ", "E", "D", "A">>,
    <<"#", "#", " ", "#", "G", "h">>,
    <<"#", "#", "#", " ", "#", "K">>,
    <<" ", "#", " ", "I", "j", " ">>,
    <<"x">>,
    <<>> }

\* lines that the four author patterns match, and one that none matches
AuthorLinePool ==
  { <<"I", ",", " ", "*", "*", "J", "o", " ", "D", "o", "*", "*", ",", " ", "x">>,
    <<"A", "u", "t", "h", "o", "r", ":", " ", "A", "l">>,
    <<"B", "y", ":", " ", "B", "o">>,
    <<"N", "a", "m", "e", ":", " ", "C", "y">>,
    <<"b", "y", " ", "A", "l", " ", "b", "o">>,
    <<"x">>,
    <<"a", "u", "t", "h", "o", "r", " ", "E", "d", " ", "F", "y">> }

\* lines that the six institute patterns match, and one that none matches
InstituteLinePool ==
  { <<"U", "n", "i", "v", "e", "r", "s", "i", "t", "y", " ", "o", "f", " ", "C", "o", "l", "o", "r", "a", "d", "o", " ", "B", "o", "u", "l", "d", "e", "r">>,
    <<"C", "o", "l", "o", "r", "a", "d", "o", " ", "B", "o", "u", "l", "d", "e", "r">>,
    <<"U", "n", "i", "v", "e", "r", "s", "i", "t", "y", " ", "o", "f", " ", "A", "b">>,
    <<"A", "t", " ", "C", "d", " ", "U", "n", "i", "v", "e", "r", "s", "i", "t", "y">>,
    <<"E", "f", " ", "C", "o", "l", "l", "e", "g", "e">>,
    <<"G", "h", " ", "I", "n", "s", "t", "i", "t", "u", "t", "e">>,
    <<"x">> }

\* the author text "I, **Jane Doe**, declare..."
JANE_DECLARES ==
  <<"I", ",", " ", "*", "*", "J", "a", "n", "e", " ", "D", "o", "e", "*",
     "*", ",", " ", "d", "e", "c", "l", "a", "r", "e", ".", ".", ".">>

\* the cells after the first one
LaterCells ==
  { <<>>, <<MarkdownCell(2, <<"#", " ", "Z", "z">>)>>,
    <<MarkdownCell(2, <<"#", "#", "#", " ", "Y", "y">>)>>,
    <<MarkdownCell(2, <<"B", "y", ":", " ", "D", "d">>)>> }

\* markdown_cells whose first cell has up to n lines of the pool
TitleCells(linePool, n) ==
  { <<MarkdownCell(0, JoinLines(ls))>> \o later :
      ls \in SeqsUpTo(linePool, n), later \in LaterCells }

\* ------------------------------------------------------------------------
\* extract_title_info, one step per statement group
\* ------------------------------------------------------------------------

TitleInit ==
  /\ \/ ti_cells = <<>>
     \/ ti_cells \in TitleCells(TitleLinePool, MaxTitleLines)
     \/ ti_cells \in TitleCells(AuthorLinePool, MaxTitleLines)
     \/ ti_cells \in TitleCells(InstituteLinePool, MaxTitleLines - 1)
     \/ ti_cells = <<MarkdownCell(0, JANE_DECLARES)>>
  /\ ti_pc = "start"
  /\ ti_title = PRESENTATION /\ ti_subtitle = <<>>
  /\ ti_author = AUTHOR /\ ti_institute = INSTITUTE
  /\ ti_lines = <<>> /\ ti_all_content = <<>> /\ ti_title_found = FALSE

\* if markdown_cells: is false, the defaults are returned
NoCells ==
  /\ ti_pc = "start" /\ ti_cells = <<>>
  /\ ti_pc' = "done"
  /\ UNCHANGED <<ti_cells, ti_lines, ti_all_content, ti_title_found, ti_title,
                 ti_subtitle, ti_author, ti_institute>>
  /\ UNCHANGED <<trVars, asmVars, mainVars>>

\* all_content of all cells, lines of the first cell
FirstCell ==
  /\ ti_pc = "start" /\ ti_cells # <<>>
  /\ ti_all_content' = AllContent(ti_cells)
  /\ ti_lines' = SplitLines(ti_cells[1].content)
  /\ ti_title_found' = FALSE
  /\ ti_pc' = "lines"
  /\ UNCHANGED <<ti_cells, ti_title, ti_subtitle, ti_author, ti_institute>>
  /\ UNCHANGED <<trVars, asmVars, mainVars>>

\* the loop is at a line
AtTitleLine == ti_pc = "lines" /\ ti_lines # <<>>

\* the guards of the if/elif chain, in its order
IsTitleH2(line_stripped, found) ==
  StartsWith(line_stripped, <<"#", "#", " ">>) /\ ~found

IsTitleH1(line_stripped, found) ==
  /\ ~IsTitleH2(line_stripped, found)
  /\ StartsWith(line_stripped, <<"#", " ">>) /\ ~found

\* mutant of IsSubtitleLine: the title need not have been found
IsSubtitleLineAnywhere(line_stripped, found, sub) ==
  /\ ~IsTitleH2(line_stripped, found) /\ ~IsTitleH1(line_stripped, found)
  /\ StartsWith(line_stripped, <<"#", "#", "#", " ">>) /\ sub = <<>>

IsSubtitleLine(line_stripped, found, sub) ==
  /\ ~IsTitleH2(line_stripped, found) /\ ~IsTitleH1(line_stripped, found)
  /\ StartsWith(line_stripped, <<"#", "#", "#", " ">>) /\ found /\ sub = <<>>

\* '## ' and not title_found: the title
TitleFromH2 ==
  /\ AtTitleLine /\ IsTitleH2(Strip(Head(ti_lines)), ti_title_found)
  /\ ti_title' = HeaderTitle(Strip(Head(ti_lines)))
  /\ ti_title_found' = TRUE
  /\ ti_lines' = Tail(ti_lines)
  /\ UNCHANGED <<ti_pc, ti_cells, ti_all_content, ti_subtitle, ti_author,
                 ti_institute>>
  /\ UNCHANGED <<trVars, asmVars, mainVars>>

\* '# ' and not title_found: the title
TitleFromH1 ==
  /\ AtTitleLine /\ IsTitleH1(Strip(Head(ti_lines)), ti_title_found)
  /\ ti_title' = HeaderTitle(Strip(Head(ti_lines)))
  /\ ti_title_found' = TRUE
  /\ ti_lines' = Tail(ti_lines)
  /\ UNCHANGED <<ti_pc, ti_cells, ti_all_content, ti_subtitle, ti_author,
                 ti_institute>>
  /\ UNCHANGED <<trVars, asmVars, mainVars>>

\* '### ' after the title while subtitle is empty: the subtitle, unless generic
SubtitleLine ==
  /\ AtTitleLine
  /\ IsSubtitleLine(Strip(Head(ti_lines)), ti_title_found, ti_subtitle)
  /\ LET potential_subtitle == HeaderTitle(Strip(Head(ti_lines)))
     IN ti_subtitle' =
          IF Lower(potential_subtitle) \notin ExcludedSubtitles
          THEN potential_subtitle ELSE ti_subtitle
  /\ ti_lines' = Tail(ti_lines)
  /\ UNCHANGED <<ti_pc, ti_cells, ti_all_content, ti_title_found, ti_title,
                 ti_author, ti_institute>>
  /\ UNCHANGED <<trVars, asmVars, mainVars>>

\* a line that takes no branch
OtherTitleLine ==
  /\ AtTitleLine
  /\ ~IsTitleH2(Strip(Head(ti_lines)), ti_title_found)
  /\ ~IsTitleH1(Strip(Head(ti_lines)), ti_title_found)
  /\ ~IsSubtitleLine(Strip(Head(ti_lines)), ti_title_found, ti_subtitle)
  /\ ti_lines' = Tail(ti_lines)
  /\ UNCHANGED <<ti_pc, ti_cells, ti_all_content, ti_title_found, ti_title,
                 ti_subtitle, ti_author, ti_institute>>
  /\ UNCHANGED <<trVars, asmVars, mainVars>>

\* the loop over author_patterns
SearchAuthor ==
  /\ ti_pc = "lines" /\ ti_lines = <<>>
  /\ ti_author' = FirstCapture(AuthorCaptures(ti_all_content), ti_author)
  /\ ti_pc' = "institute"
  /\ UNCHANGED <<ti_cells, ti_lines, ti_all_content, ti_title_found, ti_title,
                 ti_subtitle, ti_institute>>
  /\ UNCHANGED <<trVars, asmVars, mainVars>>

\* the loop over institute_patterns, and the return
SearchInstitute ==
  /\ ti_pc = "institute"
  /\ ti_institute' =
       NormalizeInstitute(
         FirstCapture(InstituteCaptures(ti_all_content), ti_institute))
  /\ ti_pc' = "done"
  /\ UNCHANGED <<ti_cells, ti_lines, ti_all_content, ti_title_found, ti_title,
                 ti_subtitle, ti_author>>
  /\ UNCHANGED <<trVars, asmVars, mainVars>>

TitleNext ==
  \/ NoCells \/ FirstCell \/ TitleFromH2 \/ TitleFromH1 \/ SubtitleLine
  \/ OtherTitleLine \/ SearchAuthor \/ SearchInstitute

InitTitle == TitleInit /\ TrIdle /\ AsmIdle /\ MainIdle

\* extract_title_info on every bounded input
SpecTitle == InitTitle /\ [][TitleNext]_vars

\* ------------------------------------------------------------------------
\* properties of extract_title_info (SpecTitle)
\* ------------------------------------------------------------------------

TitleDone == ti_pc = "done"

\* the lines of the first cell, and those among them that are title headings
FirstCellLines == SplitLines(ti_cells[1].content)

IsTitleHeading(line) ==
  \/ StartsWith(Strip(line), <<"#", " ">>)
  \/ StartsWith(Strip(line), <<"#", "#", " ">>)

TitleHeadings == {i \in 1..Len(FirstCellLines) : IsTitleHeading(FirstCellLines[i])}

\* the text of a heading line: the marker and the whitespace around it
\* taken away, the rest as it stands
TextAfterMarker(line, marker) ==
  Strip(SubSeq(Strip(line), Len(marker) + 1, Len(Strip(line))))

HeadingText(line) ==
  IF StartsWith(Strip(line), <<"#", "#", "#", " ">>)
  THEN TextAfterMarker(line, <<"#", "#", "#", " ">>)
  ELSE IF StartsWith(Strip(line), <<"#", "#", " ">>)
  THEN TextAfterMarker(line, <<"#", "#", " ">>)
  ELSE TextAfterMarker(line, <<"#", " ">>)

\* C11: the title is the heading text, unchanged but for the marker and the
\* whitespace around it, of the first line of the first markdown cell that
\* starts with "# " or "## "; it is "Presentation" when there is no cell or
\* no such line, and with no cell the other three fields are "", "Author"
\* and "Institute"
C11_Title ==
  TitleDone =>
    IF ti_cells = <<>>
    THEN /\ ti_title = PRESENTATION /\ ti_subtitle = <<>>
         /\ ti_author = AUTHOR /\ ti_institute = INSTITUTE
    ELSE IF TitleHeadings = {} THEN ti_title = PRESENTATION
    ELSE ti_title = HeadingText(FirstCellLines[Min(TitleHeadings)])

JO_DO == <<"J", "o", " ", "D", "o">>
JANE_DOE == <<"J", "a", "n", "e", " ", "D", "o", "e">>

\* the author a capture gives
AuthorFrom(capture) == Strip(capture[1])

\* C12: the author is what the first of the four patterns, in the order
\* I, **Name**, / Author: / By: / Name:, that matches anywhere in the
\* concatenation of all cells captures, also when a later pattern matches
\* earlier in the text; "I, **Jane Doe**, declare..." gives "Jane Doe";
\* when no pattern matches the author is "Author"
C12_AuthorOrder ==
  (TitleDone /\ ti_cells # <<>>) =>
    LET s == AllContent(ti_cells)
    IN /\ IF DeclaredName(s) # None
          THEN ti_author = AuthorFrom(DeclaredName(s))
          ELSE IF LabelledName(s, AUTHOR) # None
          THEN ti_author = AuthorFrom(LabelledName(s, AUTHOR))
          ELSE IF LabelledName(s, <<"B", "y">>) # None
          THEN ti_author = AuthorFrom(LabelledName(s, <<"B", "y">>))
          ELSE IF LabelledName(s, <<"N", "a", "m", "e">>) # None
          THEN ti_author = AuthorFrom(LabelledName(s, <<"N", "a", "m", "e">>))
          ELSE ti_author = AUTHOR
       /\ s = JANE_DECLARES => ti_author = JANE_DOE

\* By: matches on the first line, I, **Jo Do**, on the second: "Jo Do"
C12_Witness ==
  /\ TitleDone
  /\ ti_cells # <<>>
  /\ LET s == AllContent(ti_cells)
     IN /\ DeclaredName(s) # None
        /\ LabelledName(s, <<"B", "y">>) # None
        /\ StartsWith(s, <<"B", "y", ":">>)
  /\ ti_author = JO_DO

\* ------------------------------------------------------------------------
\* properties of the walk over a markdown cell (Spec)
\* ------------------------------------------------------------------------

\* the walk takes the line at the head of lines in this step
WalksLine == pc = "markdown" /\ lines # <<>> /\ lines' = Tail(lines)

StartsWithMarker(line, marker) == StartsWith(Strip(line), marker)

IsSectionHeading(line) ==
  StartsWithMarker(line, <<"#", " ">>) \/ StartsWithMarker(line, <<"#", "#", " ">>)

IsFrameHeading(line) == StartsWithMarker(line, <<"#", "#", "#", " ">>)

\* the trimmed line without its leading "#" and space characters
LabelOf(line) == HeaderTitle(Strip(line))

IsBlankBody(body) == \A i \in 1..Len(body) : Strip(body[i]) = <<>>

MarkdownBlocksAfter == SelectSeq(content_latex', LAMBDA b : b.kind = "markdown")
SectionBlocksAfter == SelectSeq(content_latex', LAMBDA b : b.kind = "section")

\* this step emits the open frame, if it has a body that is not blank
EmitsBody ==
  IF in_frame /\ ~IsBlankBody(current_frame_content)
  THEN /\ Len(MarkdownBlocksAfter) = Len(BlocksOf("markdown")) + 1
       /\ SubSeq(MarkdownBlocksAfter, 1, Len(BlocksOf("markdown"))) =
            BlocksOf("markdown")
       /\ MarkdownBlocksAfter[Len(MarkdownBlocksAfter)].body =
            current_frame_content
       /\ content_latex'[Len(content_latex) + 1].kind = "markdown"
  ELSE MarkdownBlocksAfter = BlocksOf("markdown")

\* this step emits the open frame and leaves no body behind
EmitsOpenFrame == current_frame_content' = <<>> /\ EmitsBody

\* this step appends a section marker with this label, after the frame
AppendsSection(label) ==
  /\ Len(SectionBlocksAfter) = Len(BlocksOf("section")) + 1
  /\ content_latex'[Len(content_latex')].kind = "section"
  /\ content_latex'[Len(content_latex')].title = label

\* C13 as stated: a "# ", "## " or "### " line emits the open frame, appends
\* a section marker with the header text and leaves no frame open
C13_HeadingsStartNoFrame ==
  [][ (WalksLine /\ (IsSectionHeading(Head(lines)) \/ IsFrameHeading(Head(lines))))
        => /\ EmitsOpenFrame
           /\ AppendsSection(LabelOf(Head(lines)))
           /\ ~in_frame' ]_vars

\* C13, amended: a "# " or "## " line emits the open frame, appends a section
\* marker with the header text and leaves no frame open; a "### " line emits
\* the open frame, appends no section marker and opens a frame whose title
\* is the header text
C13_SectionsAndFrameTitles ==
  [][ /\ (WalksLine /\ IsSectionHeading(Head(lines)))
          => /\ EmitsOpenFrame
             /\ AppendsSection(LabelOf(Head(lines)))
             /\ ~in_frame' /\ current_frame_title' = None
      /\ (WalksLine /\ IsFrameHeading(Head(lines)))
          => /\ EmitsOpenFrame
             /\ SectionBlocksAfter = BlocksOf("section")
             /\ in_frame' /\ current_frame_title' = Some(LabelOf(Head(lines))) ]_vars

\* a "### T" line was walked after a section: the frame titled T is open
C13_Witness ==
  /\ pc = "markdown"
  /\ in_frame /\ current_frame_title = Some(<<"T">>)
  /\ current_frame_content = <<>>
  /\ BlocksOf("section") # <<>>
  /\ BlocksOf("markdown") # <<>>

IsRule(line) == Strip(line) = <<"-", "-", "-">>

\* C14: after a "---" line no frame is open, so that a content line after it
\* is never added to a frame that was opened before the rule
C14_RuleClosesFrame ==
  [][ (WalksLine /\ IsRule(Head(lines))) => ~in_frame' ]_vars

IsOrdinary(line) ==
  /\ ~IsSectionHeading(line) /\ ~IsFrameHeading(line)
  /\ ~StartsWithMarker(line, <<"-", "-", "-">>)

\* seq is a run of consecutive elements of whole
IsSegment(seq, whole) ==
  \E a \in 1..(Len(whole) + 1) :
     /\ a + Len(seq) - 1 <= Len(whole)
     /\ seq = SubSeq(whole, a, a + Len(seq) - 1)

\* every markdown frame holds consecutive lines of the one cell it was
\* written for, and follows no output of a later cell index
FramesOfOneCell ==
  \A i \in 1..Len(content_latex) :
     content_latex[i].kind = "markdown" =>
       /\ FirstMarkdownCell(markdown_cells, content_latex[i].cell) # None
       /\ IsSegment(content_latex[i].body,
            WalkedLines(FirstMarkdownCell(markdown_cells, content_latex[i].cell)[1]))
       /\ \A j \in 1..(i - 1) : content_latex[j].cell <= content_latex[i].cell

\* the walk of a cell starts with no frame open, and ends by emitting the
\* frame that is open
CellStartsAndEndsClosed ==
  /\ (pc # "markdown" /\ pc' = "markdown")
       => /\ ~in_frame' /\ current_frame_content' = <<>>
          /\ current_frame_title' = None
  /\ (pc = "markdown" /\ pc' # "markdown") => EmitsBody

\* an ordinary line with no frame open: a frame with an empty title if the
\* line is not blank, no frame if it is
OrdinaryLineOpensFrame ==
  (WalksLine /\ IsOrdinary(Head(lines)) /\ ~in_frame) =>
    IF Strip(Head(lines)) # <<>>
    THEN /\ in_frame' /\ current_frame_title' = Some(<<>>)
         /\ current_frame_content' = <<Head(lines)>>
    ELSE /\ ~in_frame' /\ current_frame_content' = current_frame_content

\* C15: frame state never carries over between markdown cells: a cell starts
\* with no frame open, the frame open at its end is emitted there, no frame
\* holds lines of two cells or follows output of a later index; an ordinary
\* line with no frame open opens an untitled frame if it is not blank and
\* none if it is blank
C15_NoCarryOver ==
  /\ []FramesOfOneCell
  /\ [][CellStartsAndEndsClosed /\ OrdinaryLineOpensFrame]_vars

\* in a later cell an ordinary line has opened an untitled frame, after the
\* frame of an earlier cell was emitted
C15_Witness ==
  /\ pc = "markdown"
  /\ in_frame /\ current_frame_title = Some(<<>>)
  /\ current_frame_content # <<>>
  /\ \E i \in 1..Len(content_latex) :
        /\ content_latex[i].kind = "markdown"
        /\ content_latex[i].cell < cell_idx
        /\ content_latex[i].title = <<"T">>

\* how many of these lines satisfy the test
CountLines(ls, Test(_)) == Cardinality({i \in 1..Len(ls) : Test(ls[i])})

IsItemOutput(line) == StartsWith(line, ITEM_PREFIX)

\* C16: the number of item lines in the result equals the number of lines of
\* the trimmed input that begin with "- " or "* " after trimming, whatever
\* else those lines contain
C16_OneItemPerMarkerLine ==
  (tr_pc = "return" /\ tr_result # None) =>
     CountLines(SplitLines(tr_result[1]), IsItemOutput) =
       CountLines(SplitLines(Strip(tr_input)), IsListItem)

\* n "#" characters and one space
HeaderMarker(n) == [i \in 1..(n + 1) |-> IF i <= n THEN "#" ELSE " "]

\* the command the re-scan writes for a header of level n
RescanCommand(n) == IF n = 3 THEN SUBSECTION ELSE SECTION

\* line is a header of level n, 1 to 3, with plain text after one space
IsLowHeader(line, n) ==
  /\ StartsWith(line, HeaderMarker(n))
  /\ Len(line) > n + 1
  /\ line[n + 2] \notin Whitespace \cup {"#"}
  /\ IsPlain(SubSeq(line, n + 2, Len(line)))

\* C17: after the re-scan every line "# X", "## X" or "### X" of the trimmed
\* input is a section command (levels 1 and 2) or a subsection command
\* (level 3) with text X, and no longer a literal line
C17_RescanNormalizes ==
  tr_pc = "lists" =>
    \A n \in 1..3 :
      LET inLines == SplitLines(Strip(tr_input))
          outLines == SplitLines(tr_text)
      IN \A i \in 1..Len(inLines) :
           IsLowHeader(inLines[i], n) =>
             \E j \in 1..Len(outLines) :
                outLines[j] = RescanCommand(n)
                                \o SubSeq(inLines[i], n + 2, Len(inLines[i]))
                                \o CLOSE_BRACE

IsH3(line) == StartsWith(Strip(line), <<"#", "#", "#", " ">>)

\* the "### " lines of the first cell after the title line
H3AfterTitle ==
  IF TitleHeadings = {} THEN {}
  ELSE {i \in (Min(TitleHeadings) + 1)..Len(FirstCellLines) :
          IsH3(FirstCellLines[i])}

\* those of them that give a text, and not one of the generic section names
AcceptedH3 ==
  {i \in H3AfterTitle :
     /\ HeaderTitle(Strip(FirstCellLines[i])) # <<>>
     /\ Lower(HeaderTitle(Strip(FirstCellLines[i]))) \notin ExcludedSubtitles}

\* C18 as stated: only the first "### " line after the title line is a
\* candidate; the subtitle is its text if that is not in the exclusion list,
\* and empty otherwise
C18_FirstH3Only ==
  (TitleDone /\ ti_cells # <<>>) =>
     ti_subtitle =
       IF H3AfterTitle = {} THEN <<>>
       ELSE LET text == HeaderTitle(Strip(FirstCellLines[Min(H3AfterTitle)]))
            IN IF Lower(text) \in ExcludedSubtitles THEN <<>> ELSE text

\* C18, amended: the subtitle comes from the first "### " line after the title
\* line of the first cell whose text is not empty and not in the exclusion
\* list, excluded lines being skipped; it is empty when there is no such
\* line; lines before the title line and lines of other cells are never used
C18_FirstAcceptedH3 ==
  (TitleDone /\ ti_cells # <<>>) =>
     ti_subtitle =
       IF AcceptedH3 = {} THEN <<>>
       ELSE HeaderTitle(Strip(FirstCellLines[Min(AcceptedH3)]))

\* an excluded "### " line was skipped and a later one gave the subtitle
C18_Witness ==
  /\ TitleDone /\ ti_cells # <<>>
  /\ AcceptedH3 # {}
  /\ Min(H3AfterTitle) < Min(AcceptedH3)
  /\ ti_subtitle = <<"E", "f">>

\* every word of name starts with a capital letter
CapitalizedWords(name) ==
  \A i \in 1..Len(name) :
     (name[i] \notin Whitespace /\ (i = 1 \/ name[i - 1] \in Whitespace))
       => IsUpper(name[i])

\* C19: the author captured by the Author:, By: and Name: patterns is one or
\* more capitalized words: no word of it starts with a lower-case letter and
\* it holds no text of a following line
C19_CapitalizedAuthor ==
  (TitleDone /\ ti_cells # <<>> /\ DeclaredName(AllContent(ti_cells)) = None) =>
     /\ CapitalizedWords(ti_author)
     /\ \A i \in 1..Len(ti_author) : ti_author[i] # NL

\* occurrences of c in s with, and without, a backslash before them
EscapedCount(s, c) ==
  Cardinality({i \in 2..Len(s) : s[i] = c /\ s[i - 1] = "\\"})

UnescapedCount(s, c) ==
  Cardinality({i \in 1..Len(s) : s[i] = c /\ (i = 1 \/ s[i - 1] # "\\")})

\* how many of the markers of s expand to a command that holds the brace c
CommandBraces(s, c) ==
  LET ms == SentinelsIn(s)
  IN Cardinality({i \in 1..Len(ms) : CountChar(Expansions[ms[i]], c) = 1})

CODE_BRACE == <<BACKTICK, "{", BACKTICK>>
LINK_PERCENT == <<"[", "a", "]", "(", "b", "%", ")">>
ITALIC_UNDERSCORE == <<"*", "a", "_", "*">>

\* C20: the escaping covers the whole text, the text of spans included: after
\* the markers are expanded every & % $ _ of the trimmed input, and every #
\* that is not a header marker, stands in the text once with a backslash
\* before it and never without, also inside code, bold, italic, link text and
\* link target; every brace of the input stands there with a backslash, and
\* the braces without a backslash are exactly those of the markup commands
C20_EscapingInsideSpans ==
  tr_pc = "rescan" =>
    LET inp == Strip(tr_input)
    IN /\ \A c \in SevenSpecials \ {"#", "{", "}"} :
            /\ EscapedCount(tr_text, c) = CountChar(inp, c)
            /\ UnescapedCount(tr_text, c) = 0
       /\ EscapedCount(tr_text, "#") = CountChar(tr_tagged, "#")
       /\ UnescapedCount(tr_text, "#") = 0
       /\ \A c \in {"{", "}"} :
            /\ EscapedCount(tr_text, c) = CountChar(inp, c)
            /\ UnescapedCount(tr_text, c) = CommandBraces(tr_tagged, c)
       /\ inp = CODE_BRACE => tr_text = TEXTTT \o <<"\\", "{">> \o CLOSE_BRACE
       /\ inp = LINK_PERCENT =>
            tr_text = HREF \o <<"b", "\\", "%">> \o CLOSE_OPEN \o <<"a">>
                        \o CLOSE_BRACE
       /\ inp = ITALIC_UNDERSCORE =>
            tr_text = TEXTIT \o <<"a", "\\", "_">> \o CLOSE_BRACE

\* a brace inside a code span and a percent sign in a link target were escaped
\* and the two spans expanded
C20_Witness ==
  /\ tr_pc = "rescan"
  /\ Strip(tr_input) = JoinLines(<<CODE_BRACE, LINK_PERCENT>>)
  /\ tr_text = JoinLines(<< TEXTTT \o <<"\\", "{">> \o CLOSE_BRACE,
                            HREF \o <<"b", "\\", "%">> \o CLOSE_OPEN \o <<"a">>
                              \o CLOSE_BRACE >>)


====
